---- MODULE Spec2Model ----
(***************************************************************************)
(* Model of mlprodict's symbolic shape algebra                             *)
(* (mlprodict/onnxrt/shape_object.py): DimensionObject, ShapeOperator and  *)
(* ShapeObject.                                                            *)
(*                                                                         *)
(* Python objects live in two heaps.  `dims` holds the DimensionObject     *)
(* instances: the object with identity d is dims[d], and the value stored  *)
(* there is its _dim attribute.  `shapes` holds the ShapeObject instances. *)
(* `writes` counts the calls of ShapeObject.__setitem__.  `last` records   *)
(* the call that was made last and what it returned.  `kernels` holds the  *)
(* operator kernels of mlprodict/onnxrt/ops_cpu (LabelEncoder,             *)
(* LinearRegressor, ZipMap), one record of attributes per instance, and    *)
(* `oinf` is the graph executor with the graph it was given.               *)
(*                                                                         *)
(* Python values are tagged records, one field set per Python type, so     *)
(* that values of different types are different and can be compared:      *)
(*   [i |-> n]            an int                                           *)
(*   [s |-> "a"]          a str                                            *)
(*   [none |-> TRUE]      None                                             *)
(*   [b |-> TRUE]         a bool returned by a comparison                  *)
(*   [ref |-> d]          a reference to the DimensionObject dims[d]       *)
(*   [op |-> "+", x |-> d1, y |-> d2, oid |-> k]                           *)
(*                        a ShapeOperator with _args = (dims[d1],dims[d2]);*)
(*                        oid is the operator object's identity            *)
(*   [list |-> <<..>>]    a list or tuple                                  *)
(*   [sref |-> k]         a reference to the ShapeObject shapes[k]         *)
(*   [err |-> "TypeError"] an exception raised by the call                 *)
(***************************************************************************)
EXTENDS Integers, Sequences, FiniteSets, TLC

VARIABLES dims, shapes, writes, last, kernels, oinf

vars == <<dims, shapes, writes, last, kernels, oinf>>

(* ------------------------------- bounds -------------------------------- *)

\* Largest number of DimensionObject instances alive in the algebra runs.
MaxDims == 3
\* Integers given to constructors and bindings range over 0..MaxInt.
MaxInt == 2
\* Largest number of DimensionObject instances alive in the shape runs.
MaxHeap == 5
\* Largest number of ShapeObject instances alive.
MaxShapes == 2
\* Largest rank of a tuple given to ShapeObject(shape).
MaxRank == 2
\* Largest number of calls of ShapeObject.__setitem__ in a run.
MaxWrites == 1
\* Largest number of kernel instances alive.
MaxKernels == 1
\* Largest number of nodes of a graph given to the executor.
MaxNodes == 3

\* Symbolic names given to constructors and bound by evaluate(**kwargs).
Names == {"a", "b"}

(* ---------------------------- Python values ---------------------------- *)

IntV(n) == [i |-> n]
StrV(t) == [s |-> t]
NoneV == [none |-> TRUE]
BoolV(t) == [b |-> t]
RefV(d) == [ref |-> d]
OpV(name, d1, d2, k) == [op |-> name, x |-> d1, y |-> d2, oid |-> k]
ListV(q) == [list |-> q]
ErrV(t) == [err |-> t]

IsInt(v) == "i" \in DOMAIN v
IsStr(v) == "s" \in DOMAIN v
IsNone(v) == "none" \in DOMAIN v
IsBool(v) == "b" \in DOMAIN v
IsRef(v) == "ref" \in DOMAIN v
IsOp(v) == "op" \in DOMAIN v
IsList(v) == "list" \in DOMAIN v
IsErr(v) == "err" \in DOMAIN v

\* id(self): the address of a live object; distinct live objects have
\* distinct addresses.  The object dims[d] is given the address d.
Id(d) == d

HexDigit(n) == SubSeq("0123456789abcdef", n + 1, n + 1)

RECURSIVE Hex(_)
\* str(hex(n))[2:]
Hex(n) == IF n < 16 THEN HexDigit(n) ELSE Hex(n \div 16) \o HexDigit(n % 16)

\* str(v) for an int or a str
Str(v) == IF IsInt(v) THEN ToString(v.i) ELSE v.s

Max2(m, n) == IF m >= n THEN m ELSE n

(* ------------------- ShapeOperator, DimensionObject -------------------- *)

\* Fct with the lambdas of ShapeOperatorAdd and ShapeOperatorMul exchanged.
FctSwapped(name, m, n) ==
    CASE name = "+" -> m * n
      [] name = "*" -> m + n
      [] name = "max" -> Max2(m, n)

\* The lambda given to ShapeOperator.__init__ by ShapeOperatorAdd,
\* ShapeOperatorMul and ShapeOperatorMax.
Fct(name, m, n) ==
    CASE name = "+" -> m + n
      [] name = "*" -> m * n
      [] name = "max" -> Max2(m, n)

\* ShapeBinaryOperator._evaluate_string_ ('+', '*') and
\* ShapeBinaryFctOperator._evaluate_string_ ('max').
EvaluateString(name, a1, a2) ==
    IF name = "max"
    THEN StrV(name \o "(" \o Str(a1) \o "," \o Str(a2) \o ")")
    ELSE StrV("(" \o Str(a1) \o ")" \o name \o "(" \o Str(a2) \o ")")

RECURSIVE Evaluate(_, _, _)
RECURSIVE OpEvaluate(_, _, _)

\* ShapeOperator.evaluate(**kw); h is the heap of DimensionObject.
OpEvaluate(h, o, kw) ==
    LET a1 == Evaluate(h, o.x, kw)
        a2 == Evaluate(h, o.y, kw)
        has_string == IsStr(a1) \/ IsStr(a2)
    IN IF has_string
       THEN EvaluateString(o.op, a1, a2)
       ELSE IntV(Fct(o.op, a1.i, a2.i))

\* EvaluateRes without the lookup of the name in kwargs.
EvaluateResNoLookup(d, self, kw) ==
    IF IsInt(d) \/ IsOp(d) \/ IsRef(d) \/ IsStr(d) THEN d
    ELSE StrV("n" \o Hex(Id(self)))

\* The first part of DimensionObject.evaluate: the value of `res` before
\* the recursive call; d is self._dim.
EvaluateRes(d, self, kw) ==
    IF IsInt(d) \/ IsOp(d) \/ IsRef(d) THEN d
    ELSE IF IsStr(d)
         THEN IF d.s \in DOMAIN kw THEN kw[d.s] ELSE d
         ELSE StrV("n" \o Hex(Id(self)))

\* DimensionObject.evaluate(**kw) of the object dims[self].
Evaluate(h, self, kw) ==
    LET res == EvaluateRes(h[self], self, kw)
    IN IF IsOp(res) THEN OpEvaluate(h, res, kw)
       ELSE IF IsRef(res) THEN Evaluate(h, res.ref, kw)
       ELSE res

\* The empty binding: evaluate() called without keyword.
NoKw == [n \in {} |-> IntV(0)]

RECURSIVE PyEq(_, _, _)
RECURSIVE DimEq(_, _, _)

\* DimEq answering False when v is None.
DimEqNoneFalse(h, self, v) ==
    IF IsInt(v) \/ IsStr(v) THEN PyEq(h, h[self], v)
    ELSE IF IsRef(v) THEN PyEq(h, v, h[self])
    ELSE IF IsOp(v) THEN PyEq(h, OpEvaluate(h, v, NoKw), h[self])
    ELSE FALSE

\* Python's l == r.  DimensionObject defines __eq__; int, str, None and
\* ShapeOperator do not know DimensionObject, so Python falls back on the
\* reflected r.__eq__(l), and on identity for two ShapeOperator.
PyEq(h, l, r) ==
    IF IsRef(l) THEN DimEq(h, l.ref, r)
    ELSE IF IsRef(r) THEN DimEq(h, r.ref, l)
    ELSE l = r

\* DimensionObject.__eq__(self, v)
DimEq(h, self, v) ==
    IF IsInt(v) \/ IsStr(v) THEN PyEq(h, h[self], v)
    ELSE IF IsRef(v) THEN PyEq(h, v, h[self])
    ELSE IF IsOp(v) THEN PyEq(h, OpEvaluate(h, v, NoKw), h[self])
    ELSE IsNone(h[self])

\* DimensionObject.__init__(obj): the value stored in _dim.
DimInit(h, obj) ==
    IF IsNone(obj) \/ PyEq(h, obj, IntV(0)) \/ PyEq(h, obj, StrV("?"))
    THEN NoneV
    ELSE obj

\* DimCombine storing the new operator in the right operand as well.
DimCombineInPlace(h, name, self, obj) ==
    Append([h EXCEPT ![obj] = NoneV],
           DimInit(h, OpV(name, self, obj, Len(h) + 1)))

\* DimensionObject.__add__, __mul__ and DimensionObject(ShapeOperatorMax(x, y)):
\* the heap after the call; the new object is the last one.
DimCombine(h, name, self, obj) ==
    Append(h, DimInit(h, OpV(name, self, obj, Len(h) + 1)))

\* DimGt with the answers of the int/None and None/int branches exchanged.
DimGtExchanged(h, self, obj) ==
    IF IsNone(obj) THEN BoolV(~IsInt(h[self]))
    ELSE LET s == h[self]
             o == h[obj.ref]
         IN IF IsInt(s) /\ IsInt(o) THEN BoolV(s.i > o.i)
            ELSE IF IsInt(s) /\ IsNone(o) THEN BoolV(TRUE)
            ELSE IF IsNone(s) /\ IsInt(o) THEN BoolV(FALSE)
            ELSE IF IsInt(s) /\ IsStr(o) THEN BoolV(FALSE)
            ELSE IF IsStr(s) /\ IsInt(o) THEN BoolV(TRUE)
            ELSE IF PyEq(h, s, o) THEN BoolV(FALSE)
            ELSE LET ev1 == Evaluate(h, self, NoKw)
                     ev2 == Evaluate(h, obj.ref, NoKw)
                 IN IF ev1 = ev2 THEN BoolV(FALSE)
                    ELSE IF IsInt(ev1) /\ IsInt(ev2) THEN BoolV(ev1.i > ev2.i)
                    ELSE ErrV("RuntimeError")

\* DimGt without the test self._dim == obj._dim made before the evaluation.
DimGtNoShortcut(h, self, obj) ==
    IF IsNone(obj) THEN BoolV(~IsInt(h[self]))
    ELSE LET s == h[self]
             o == h[obj.ref]
         IN IF IsInt(s) /\ IsInt(o) THEN BoolV(s.i > o.i)
            ELSE IF IsInt(s) /\ IsNone(o) THEN BoolV(FALSE)
            ELSE IF IsNone(s) /\ IsInt(o) THEN BoolV(TRUE)
            ELSE IF IsInt(s) /\ IsStr(o) THEN BoolV(FALSE)
            ELSE IF IsStr(s) /\ IsInt(o) THEN BoolV(TRUE)
            ELSE LET ev1 == Evaluate(h, self, NoKw)
                     ev2 == Evaluate(h, obj.ref, NoKw)
                 IN IF ev1 = ev2 THEN BoolV(FALSE)
                    ELSE IF IsInt(ev1) /\ IsInt(ev2) THEN BoolV(ev1.i > ev2.i)
                    ELSE ErrV("RuntimeError")

\* DimensionObject.__gt__(self, obj), obj a DimensionObject or None.
DimGt(h, self, obj) ==
    IF IsNone(obj) THEN BoolV(~IsInt(h[self]))
    ELSE LET s == h[self]
             o == h[obj.ref]
         IN IF IsInt(s) /\ IsInt(o) THEN BoolV(s.i > o.i)
            ELSE IF IsInt(s) /\ IsNone(o) THEN BoolV(FALSE)
            ELSE IF IsNone(s) /\ IsInt(o) THEN BoolV(TRUE)
            ELSE IF IsInt(s) /\ IsStr(o) THEN BoolV(FALSE)
            ELSE IF IsStr(s) /\ IsInt(o) THEN BoolV(TRUE)
            ELSE IF PyEq(h, s, o) THEN BoolV(FALSE)
            ELSE LET ev1 == Evaluate(h, self, NoKw)
                     ev2 == Evaluate(h, obj.ref, NoKw)
                 IN IF ev1 = ev2 THEN BoolV(FALSE)
                    ELSE IF IsInt(ev1) /\ IsInt(ev2) THEN BoolV(ev1.i > ev2.i)
                    ELSE ErrV("RuntimeError")

(* ----------------------------- ShapeObject ----------------------------- *)

\* A ShapeObject is [shape |-> _shape, dtype |-> _dtype, name |-> name];
\* _shape is None or a list of elements.

\* "{}".format(name)
Fmt(name) == IF IsNone(name) THEN "None" ELSE name.s

\* name or other
Or(name, other) == IF IsNone(name) \/ name = StrV("") THEN other ELSE name

\* The 0-based position list[index] reads or writes in a list of n elements
\* (a negative index counts from the end), -1 when Python raises IndexError.
PyIdx(n, index) ==
    LET k == IF index < 0 THEN index + n ELSE index
    IN IF 0 <= k /\ k < n THEN k ELSE -1

RemoveAt(q, k) == SubSeq(q, 1, k - 1) \o SubSeq(q, k + 1, Len(q))

RECURSIVE WrapAll(_, _)
\* [DimensionObject(s) for s in items]: the heap after the constructions.
WrapAll(h, items) ==
    IF items = <<>> THEN h
    ELSE WrapAll(Append(h, DimInit(h, Head(items))), Tail(items))

\* The end of ShapeObject.__init__: with use_n1, the first dimension of the
\* new shape, dims[first], is renamed 'n' when it is unknown.
UseN1(h1, first, use_n1) ==
    IF use_n1 /\ first <= Len(h1) /\ IsNone(h1[first])
    THEN [h1 EXCEPT ![first] = StrV("n")]
    ELSE h1

\* ShapeObject.__init__(shape, dtype, use_n1, name), shape a tuple, a list
\* or None: the heap after the call and the new object (or the exception).
ShapeInit(h, shape, dtype, use_n1, name) ==
    IF ~(IsList(shape) \/ IsNone(shape))
    THEN [dims |-> h, obj |-> ErrV("TypeError")]
    ELSE IF IsNone(dtype)
    THEN [dims |-> h, obj |-> ErrV("ValueError")]
    ELSE IF IsNone(shape)
    THEN [dims |-> h,
          obj |-> [shape |-> NoneV, dtype |-> dtype, name |-> name]]
    ELSE [dims |-> UseN1(WrapAll(h, shape.list), Len(h) + 1, use_n1),
          obj |-> [shape |-> ListV([j \in 1..Len(shape.list) |->
                                     RefV(Len(h) + j)]),
                   dtype |-> dtype, name |-> name]]

\* ShapeCopy answering the empty shape for the unknown shape.
ShapeCopyUnknownAsEmpty(h, self, dtype, name) ==
    ShapeInit(h, IF IsNone(self.shape) THEN ListV(<<>>) ELSE self.shape,
              IF IsNone(self.shape) \/ IsNone(dtype) THEN self.dtype ELSE dtype,
              FALSE, Or(name, self.name))

\* ShapeObject.copy(dtype, name): a new ShapeObject over self._shape.copy(),
\* or over None for the unknown shape, which keeps self.dtype.
ShapeCopy(h, self, dtype, name) ==
    ShapeInit(h, self.shape,
              IF IsNone(self.shape) \/ IsNone(dtype) THEN self.dtype ELSE dtype,
              FALSE, Or(name, self.name))

\* ShapeObject.__len__
ShapeLen(self) == IF IsNone(self.shape) THEN 0 ELSE Len(self.shape.list)

\* ShapeGetItem answering 1 only from len + 1 on.
ShapeGetItemStrict(self, index) ==
    IF IsNone(self.shape) THEN NoneV
    ELSE IF index > Len(self.shape.list) THEN IntV(1)
    ELSE LET k == PyIdx(Len(self.shape.list), index)
         IN IF k < 0 THEN ErrV("IndexError") ELSE self.shape.list[k + 1]

\* ShapeObject.__getitem__(index): the value returned.
ShapeGetItem(self, index) ==
    IF IsNone(self.shape) THEN NoneV
    ELSE IF index >= Len(self.shape.list) THEN IntV(1)
    ELSE LET k == PyIdx(Len(self.shape.list), index)
         IN IF k < 0 THEN ErrV("IndexError") ELSE self.shape.list[k + 1]

\* ShapeSetItem padding with unknown dimensions instead of 1.
ShapeSetItemPadUnknown(h, self, index, value) ==
    IF IsNone(self.shape) THEN [dims |-> h, obj |-> self, res |-> NoneV]
    ELSE LET n == Len(self.shape.list)
             pad == IF index >= n THEN index + 1 - n ELSE 0
             h1 == WrapAll(h, [j \in 1..pad |-> NoneV])
             l1 == self.shape.list \o [j \in 1..pad |-> RefV(Len(h) + j)]
             k == PyIdx(Len(l1), index)
         IN IF k < 0
            THEN [dims |-> h1, obj |-> [self EXCEPT !.shape = ListV(l1)],
                  res |-> ErrV("IndexError")]
            ELSE [dims |-> h1,
                  obj |-> [self EXCEPT !.shape = ListV([l1 EXCEPT ![k + 1] = value])],
                  res |-> NoneV]

\* ShapeObject.__setitem__(index, value): the heap, the object and the
\* value returned (or the exception) after the call.
ShapeSetItem(h, self, index, value) ==
    IF IsNone(self.shape) THEN [dims |-> h, obj |-> self, res |-> NoneV]
    ELSE LET n == Len(self.shape.list)
             pad == IF index >= n THEN index + 1 - n ELSE 0
             h1 == WrapAll(h, [j \in 1..pad |-> IntV(1)])
             l1 == self.shape.list \o [j \in 1..pad |-> RefV(Len(h) + j)]
             k == PyIdx(Len(l1), index)
         IN IF k < 0
            THEN [dims |-> h1, obj |-> [self EXCEPT !.shape = ListV(l1)],
                  res |-> ErrV("IndexError")]
            ELSE [dims |-> h1,
                  obj |-> [self EXCEPT !.shape = ListV([l1 EXCEPT ![k + 1] = value])],
                  res |-> NoneV]

\* ShapeReduce with the two branches of `if keepdims` exchanged.
ShapeReduceKeepExchanged(h, self, axis, keepdims, dtype) ==
    IF IsNone(self.shape)
    THEN ShapeCopy(h, self, NoneV,
                   IF IsNone(self.name) THEN NoneV
                   ELSE StrV(Fmt(self.name) \o "-RD"))
    ELSE IF 0 <= axis /\ axis < Len(self.shape.list)
    THEN LET h1 == IF ~keepdims THEN Append(h, DimInit(h, IntV(1))) ELSE h
             cp == IF ~keepdims
                   THEN [self.shape.list EXCEPT ![axis + 1] = RefV(Len(h1))]
                   ELSE RemoveAt(self.shape.list, axis + 1)
         IN ShapeInit(h1, ListV(cp),
                      IF IsNone(dtype) THEN self.dtype ELSE dtype,
                      FALSE, StrV(Fmt(self.name) \o "-RD"))
    ELSE [dims |-> h, obj |-> ErrV("IndexError")]

\* ShapeObject.reduce(axis, keepdims, dtype): the heap after the call and
\* the new object (or the exception).
ShapeReduce(h, self, axis, keepdims, dtype) ==
    IF IsNone(self.shape)
    THEN ShapeCopy(h, self, NoneV,
                   IF IsNone(self.name) THEN NoneV
                   ELSE StrV(Fmt(self.name) \o "-RD"))
    ELSE IF 0 <= axis /\ axis < Len(self.shape.list)
    THEN LET h1 == IF keepdims THEN Append(h, DimInit(h, IntV(1))) ELSE h
             cp == IF keepdims
                   THEN [self.shape.list EXCEPT ![axis + 1] = RefV(Len(h1))]
                   ELSE RemoveAt(self.shape.list, axis + 1)
         IN ShapeInit(h1, ListV(cp),
                      IF IsNone(dtype) THEN self.dtype ELSE dtype,
                      FALSE, StrV(Fmt(self.name) \o "-RD"))
    ELSE [dims |-> h, obj |-> ErrV("IndexError")]

RECURSIVE ZipEq(_, _, _)
\* for d1, d2 in zip(x, y): if d1 == d2: continue; return False / return True
ZipEq(h, x, y) ==
    IF x = <<>> \/ y = <<>> THEN TRUE
    ELSE IF PyEq(h, Head(x), Head(y)) THEN ZipEq(h, Tail(x), Tail(y))
    ELSE FALSE

\* ShapeEq without the comparison of the two lengths.
ShapeEqNoLen(h, self, a) ==
    LET conv == ShapeInit(h, a, self.dtype, FALSE, NoneV)
        h1 == IF IsList(a) THEN conv.dims ELSE h
        b == IF IsList(a) THEN conv.obj ELSE a
    IN IF IsNone(self.shape) /\ IsNone(b.shape) THEN TRUE
       ELSE IF IsNone(self.shape) \/ IsNone(b.shape) THEN FALSE
       ELSE ZipEq(h1, self.shape.list, b.shape.list)

\* ShapeObject.__eq__(self, a), a a ShapeObject or a tuple.
ShapeEq(h, self, a) ==
    LET conv == ShapeInit(h, a, self.dtype, FALSE, NoneV)
        h1 == IF IsList(a) THEN conv.dims ELSE h
        b == IF IsList(a) THEN conv.obj ELSE a
    IN IF IsNone(self.shape) /\ IsNone(b.shape) THEN TRUE
       ELSE IF IsNone(self.shape) \/ IsNone(b.shape) THEN FALSE
       ELSE IF ShapeLen(self) # ShapeLen(b) THEN FALSE
       ELSE ZipEq(h1, self.shape.list, b.shape.list)

(* ------------------------------- inputs -------------------------------- *)

\* What a caller passes to DimensionObject(obj): an int, a name, '?' or None.
RawObjs == {IntV(n) : n \in 0..MaxInt} \cup {StrV(n) : n \in Names}
             \cup {StrV("?"), NoneV}

\* The bindings passed to evaluate(**kwargs): some names, each with an int.
Bindings == UNION {[D -> {IntV(n) : n \in 1..MaxInt}] : D \in SUBSET Names}

DimIds == DOMAIN dims

\* What a caller passes as one element of ShapeObject(shape).
ShapeRaw == {IntV(n) : n \in 1..MaxInt} \cup {StrV("a"), NoneV}

\* What a caller passes as ShapeObject(shape): a tuple or None.
ShapeArgs == {ListV(q) : q \in UNION {[1..r -> ShapeRaw] : r \in 0..MaxRank}}
               \cup {NoneV}

\* The element types given as dtype.
Dtypes == {StrV("float32"), StrV("int64")}

\* The indices and axes given to __getitem__, __setitem__ and reduce.
Indices == (0 - 1)..MaxRank

\* The tuples compared with a ShapeObject.
Tuples == {ListV(<<>>), ListV(<<IntV(1)>>), ListV(<<IntV(1), IntV(MaxInt)>>)}

SRefV(k) == [sref |-> k]

\* No call is in progress and the result of the last one was dropped.
Idle == [op |-> "idle"]

\* No graph was given to the executor yet.
NoOinf == [state |-> "none"]

(* ------------------------ actions on dimensions ------------------------ *)

Init ==
    /\ dims = <<>>
    /\ shapes = <<>>
    /\ writes = 0
    /\ last = Idle
    /\ kernels = <<>>
    /\ oinf = NoOinf

\* d = DimensionObject(obj), obj a raw value or an existing DimensionObject
NewDim ==
    /\ last = Idle
    /\ Len(dims) < MaxDims
    /\ \E obj \in RawObjs \cup {RefV(d) : d \in DimIds} :
         /\ dims' = Append(dims, DimInit(dims, obj))
         /\ last' = [op |-> "DimensionObject", arg |-> obj,
                     res |-> RefV(Len(dims) + 1)]
    /\ UNCHANGED <<shapes, writes, kernels, oinf>>

\* self + obj, self * obj, DimensionObject(ShapeOperatorMax(self, obj))
Combine ==
    /\ last = Idle
    /\ Len(dims) < MaxDims
    /\ \E name \in {"+", "*", "max"}, self \in DimIds, obj \in DimIds :
         /\ dims' = DimCombine(dims, name, self, obj)
         /\ last' = [op |-> name, self |-> self, obj |-> obj,
                     res |-> RefV(Len(dims') )]
    /\ UNCHANGED <<shapes, writes, kernels, oinf>>

\* self.evaluate(**kw)
EvaluateDim ==
    /\ last = Idle
    /\ \E self \in DimIds, kw \in Bindings :
         last' = [op |-> "evaluate", self |-> self, kw |-> kw,
                  res |-> Evaluate(dims, self, kw)]
    /\ UNCHANGED <<dims, shapes, writes, kernels, oinf>>

\* self == v, v a DimensionObject
EqDim ==
    /\ last = Idle
    /\ \E self \in DimIds, v \in DimIds :
         last' = [op |-> "==", self |-> self, obj |-> v,
                  res |-> BoolV(DimEq(dims, self, RefV(v)))]
    /\ UNCHANGED <<dims, shapes, writes, kernels, oinf>>

\* self > obj, obj a DimensionObject
GtDim ==
    /\ last = Idle
    /\ \E self \in DimIds, obj \in DimIds :
         last' = [op |-> ">", self |-> self, obj |-> obj,
                  res |-> DimGt(dims, self, RefV(obj))]
    /\ UNCHANGED <<dims, shapes, writes, kernels, oinf>>

\* The caller drops the value returned by the last call.
Discard ==
    /\ last # Idle
    /\ last' = Idle
    /\ UNCHANGED <<dims, shapes, writes, kernels, oinf>>

Next ==
    \/ NewDim
    \/ Combine
    \/ EvaluateDim
    \/ EqDim
    \/ GtDim
    \/ Discard

\* The dimension algebra: DimensionObject and ShapeOperator.
Spec == Init /\ [][Next]_vars

(* ------------------------ claims on dimensions ------------------------- *)

RECURSIVE Leaves(_, _)
\* The values (int, str or None) at the leaves of the expression dims[d].
Leaves(h, d) ==
    LET v == h[d]
    IN IF IsOp(v) THEN Leaves(h, v.x) \cup Leaves(h, v.y)
       ELSE IF IsRef(v) THEN Leaves(h, v.ref)
       ELSE {v}

\* The symbolic names occurring in dims[d].
FreeNames(h, d) == {v.s : v \in {l \in Leaves(h, d) : IsStr(l)}}

\* dims[d] is built from known integers and names that kw binds.
Resolved(h, d, kw) ==
    \A l \in Leaves(h, d) : IsInt(l) \/ (IsStr(l) /\ l.s \in DOMAIN kw)

\* C1: when A + B is built from known integers and symbolic names and the
\* binding gives an integer to each of its names, (A + B).evaluate(binding)
\* is the integer A.evaluate(binding) + B.evaluate(binding).
C1_EvaluateAdd ==
    (/\ last.op = "evaluate"
     /\ IsOp(dims[last.self])
     /\ dims[last.self].op = "+"
     /\ Resolved(dims, last.self, last.kw))
    => LET o == dims[last.self]
           a == Evaluate(dims, o.x, last.kw)
           b == Evaluate(dims, o.y, last.kw)
       IN IsInt(a) /\ IsInt(b) /\ last.res = IntV(a.i + b.i)

\* C1 witness: a nested sum over a bound name was evaluated to an integer.
C1_Witness ==
    /\ last.op = "evaluate"
    /\ IsOp(dims[last.self])
    /\ dims[last.self].op = "+"
    /\ IsOp(dims[dims[last.self].x])
    /\ dims[dims[last.self].x].op = "+"
    /\ FreeNames(dims, last.self) # {}
    /\ Resolved(dims, last.self, last.kw)
    /\ IsInt(last.res)

\* C2 as stated: evaluate with a binding for every name of the dimension
\* returns an integer, whatever the dimension is built from (integers,
\* names, unknown placeholders, +, *, max).
C2_AlwaysInteger ==
    (/\ last.op = "evaluate"
     /\ FreeNames(dims, last.self) \subseteq DOMAIN last.kw)
    => IsInt(last.res)

\* C2 amended: evaluate with a binding for every name of the dimension
\* returns an integer when no leaf of the dimension is an unknown
\* placeholder, and a string when some leaf is one.
C2_IntegerUnlessUnknown ==
    (/\ last.op = "evaluate"
     /\ FreeNames(dims, last.self) \subseteq DOMAIN last.kw)
    => /\ Resolved(dims, last.self, last.kw) => IsInt(last.res)
       /\ NoneV \in Leaves(dims, last.self) => IsStr(last.res)

\* C2 witness: a * or max expression over a bound name and an integer was
\* evaluated.
C2_Witness ==
    /\ last.op = "evaluate"
    /\ IsOp(dims[last.self])
    /\ dims[last.self].op \in {"*", "max"}
    /\ FreeNames(dims, last.self) # {}
    /\ \E l \in Leaves(dims, last.self) : IsInt(l)
    /\ Resolved(dims, last.self, last.kw)

\* C3 as stated: an unknown dimension is never greater than a known
\* integer dimension.
C3_UnknownNeverGreater ==
    (/\ last.op = ">"
     /\ IsNone(dims[last.self])
     /\ IsInt(dims[last.obj]))
    => last.res = BoolV(FALSE)

\* C3 amended: a known integer dimension is never greater than an unknown
\* dimension, and an unknown dimension is greater than every known integer
\* dimension.
C3_KnownNeverGreater ==
    last.op = ">"
    => /\ (IsInt(dims[last.self]) /\ IsNone(dims[last.obj]))
            => last.res = BoolV(FALSE)
       /\ (IsNone(dims[last.self]) /\ IsInt(dims[last.obj]))
            => last.res = BoolV(TRUE)

\* C3 witness: an unknown dimension was compared with a known integer.
C3_Witness ==
    /\ last.op = ">"
    /\ IsNone(dims[last.self])
    /\ IsInt(dims[last.obj])

\* C4: a dimension constructed from a non-negative integer k, 0 included,
\* is a known integer: it is not the unknown placeholder, it is equal to k
\* and it evaluates to k under every binding.
C4_IntegerIsKnown ==
    (/\ last.op = "DimensionObject"
     /\ IsInt(last.arg))
    => /\ ~IsNone(dims[last.res.ref])
       /\ DimEq(dims, last.res.ref, last.arg)
       /\ \A kw \in Bindings : Evaluate(dims, last.res.ref, kw) = last.arg

\* Two dimensions are unresolved and distinct: two different names, or two
\* unknown placeholders that are different objects.
DistinctUnresolved(h, d1, d2) ==
    \/ IsStr(h[d1]) /\ IsStr(h[d2]) /\ h[d1] # h[d2]
    \/ IsNone(h[d1]) /\ IsNone(h[d2]) /\ d1 # d2

\* C6 as stated: two distinct unresolved dimensions are equal with == only
\* if both evaluate to the same result under some binding.
C6_DistinctNeverEqual ==
    (/\ last.op = "=="
     /\ DistinctUnresolved(dims, last.self, last.obj)
     /\ last.res = BoolV(TRUE))
    => \E kw \in Bindings :
         Evaluate(dims, last.self, kw) = Evaluate(dims, last.obj, kw)

\* C6 amended: two dimensions with different symbolic names are never
\* equal with ==; two unknown placeholders are always equal with ==, and
\* when they are different objects they evaluate to different generated
\* symbols under every binding.
C6_NamesDifferUnknownsEqual ==
    last.op = "=="
    => /\ (IsStr(dims[last.self]) /\ IsStr(dims[last.obj])
             /\ dims[last.self] # dims[last.obj])
            => last.res = BoolV(FALSE)
       /\ (IsNone(dims[last.self]) /\ IsNone(dims[last.obj]))
            => /\ last.res = BoolV(TRUE)
               /\ last.self # last.obj
                    => \A kw \in Bindings :
                         Evaluate(dims, last.self, kw)
                           # Evaluate(dims, last.obj, kw)

\* C6 witness: two different unknown placeholders were compared.
C6_Witness ==
    /\ last.op = "=="
    /\ IsNone(dims[last.self])
    /\ IsNone(dims[last.obj])
    /\ last.self # last.obj

\* C10: self + obj and self * obj make a new DimensionObject holding the
\* operator over the two operands and change no existing DimensionObject;
\* evaluate changes no DimensionObject either.
C10_CombineKeepsOperands ==
    [][/\ last'.op \in {"+", "*"}
          => /\ Len(dims') = Len(dims) + 1
             /\ \A d \in DOMAIN dims : dims'[d] = dims[d]
             /\ last'.res = RefV(Len(dims'))
             /\ IsOp(dims'[Len(dims')])
             /\ dims'[Len(dims')].op = last'.op
             /\ dims'[Len(dims')].x = last'.self
             /\ dims'[Len(dims')].y = last'.obj
       /\ last'.op = "evaluate" => dims' = dims]_vars

\* C10 witness: the result of a + or * was evaluated.
C10_Witness ==
    /\ last.op = "evaluate"
    /\ IsOp(dims[last.self])
    /\ dims[last.self].op \in {"+", "*"}
    /\ dims[last.self].x # dims[last.self].y

\* The pairs (self._dim, obj._dim) the first branches of __gt__ decide: two
\* integers, an integer and an unknown placeholder, an integer and a name.
PlainPair(s, o) ==
    \/ IsInt(s) /\ IsInt(o)
    \/ IsInt(s) /\ (IsNone(o) \/ IsStr(o))
    \/ (IsNone(s) \/ IsStr(s)) /\ IsInt(o)

\* What > answers from the two results of evaluate(): a failure when both
\* are non-integers and differ, the numeric comparison when both are
\* integers.
FromEvaluation(ev1, ev2, res) ==
    /\ (~IsInt(ev1) /\ ~IsInt(ev2) /\ ev1 # ev2) => res = ErrV("RuntimeError")
    /\ (IsInt(ev1) /\ IsInt(ev2)) => res = BoolV(ev1.i > ev2.i)

\* C25 as stated: when > is applied to two dimensions that are not a plain
\* pair, both sides are evaluated with an empty binding; two non-integer
\* results that differ raise a comparison failure, two integer results give
\* the numeric comparison.
C25_FallbackEvaluates ==
    (/\ last.op = ">"
     /\ ~PlainPair(dims[last.self], dims[last.obj]))
    => FromEvaluation(Evaluate(dims, last.self, NoKw),
                      Evaluate(dims, last.obj, NoKw), last.res)

\* C25 amended: when > is applied to two dimensions that are not a plain
\* pair, it returns False without evaluating when the two stored values are
\* equal with == (two unknown placeholders, be they different objects, are);
\* otherwise both sides are evaluated with an empty binding, two non-integer
\* results that differ raise a comparison failure and two integer results
\* give the numeric comparison.
C25_FallbackUnlessEqual ==
    (/\ last.op = ">"
     /\ ~PlainPair(dims[last.self], dims[last.obj]))
    => IF PyEq(dims, dims[last.self], dims[last.obj])
       THEN last.res = BoolV(FALSE)
       ELSE FromEvaluation(Evaluate(dims, last.self, NoKw),
                           Evaluate(dims, last.obj, NoKw), last.res)

\* C25 witness: two different unknown placeholders were compared with >, and
\* the answer was False although they evaluate to different symbols.
C25_Witness ==
    /\ last.op = ">"
    /\ IsNone(dims[last.self])
    /\ IsNone(dims[last.obj])
    /\ Evaluate(dims, last.self, NoKw) # Evaluate(dims, last.obj, NoKw)
    /\ last.res = BoolV(FALSE)

RECURSIVE Algebraic(_, _)
\* dims[d] is a known integer, a name, an unknown placeholder, or a + or *
\* expression over such dimensions.
Algebraic(h, d) ==
    LET v == h[d]
    IN IF IsOp(v)
       THEN v.op \in {"+", "*"} /\ Algebraic(h, v.x) /\ Algebraic(h, v.y)
       ELSE ~IsRef(v)

\* C26: dimension equality is symmetric: for all dimensions a and b, known
\* integers, names, unknown placeholders and + / * expressions, a == b
\* returns what b == a returns.
C26_EqSymmetric ==
    (/\ last.op = "=="
     /\ Algebraic(dims, last.self)
     /\ Algebraic(dims, last.obj))
    => last.res = BoolV(DimEq(dims, last.obj, RefV(last.self)))

(* -------------------------- actions on shapes -------------------------- *)

ShapeIds == DOMAIN shapes

\* ShapeObject(shape, dtype=dtype, use_n1=use_n1)
NewShape ==
    /\ last = Idle
    /\ Len(shapes) < MaxShapes
    /\ \E shape \in ShapeArgs, dtype \in Dtypes \cup {NoneV}, use_n1 \in BOOLEAN :
         LET r == ShapeInit(dims, shape, dtype, use_n1, NoneV)
         IN /\ Len(r.dims) <= MaxHeap
            /\ dims' = r.dims
            /\ shapes' = IF IsErr(r.obj) THEN shapes ELSE Append(shapes, r.obj)
            /\ last' = [op |-> "ShapeObject", shape |-> shape, dtype |-> dtype,
                        use_n1 |-> use_n1,
                        res |-> IF IsErr(r.obj) THEN r.obj
                                ELSE SRefV(Len(shapes) + 1)]
    /\ UNCHANGED <<writes, kernels, oinf>>

\* self[index]
GetItem ==
    /\ last = Idle
    /\ \E self \in ShapeIds, index \in Indices :
         last' = [op |-> "getitem", self |-> self, index |-> index,
                  res |-> ShapeGetItem(shapes[self], index)]
    /\ UNCHANGED <<dims, shapes, writes, kernels, oinf>>

\* self[index] = value, value a DimensionObject or an int
SetItem ==
    /\ last = Idle
    /\ writes < MaxWrites
    /\ writes' = writes + 1
    /\ \E self \in ShapeIds, index \in Indices,
          value \in {RefV(d) : d \in DimIds} \cup {IntV(MaxInt)} :
         LET r == ShapeSetItem(dims, shapes[self], index, value)
         IN /\ Len(r.dims) <= MaxHeap
            /\ dims' = r.dims
            /\ shapes' = [shapes EXCEPT ![self] = r.obj]
            /\ last' = [op |-> "setitem", self |-> self, index |-> index,
                        value |-> value, res |-> r.res]
    /\ UNCHANGED <<kernels, oinf>>

\* self.reduce(axis, keepdims)
Reduce ==
    /\ last = Idle
    /\ Len(shapes) < MaxShapes
    /\ \E self \in ShapeIds, axis \in Indices, keepdims \in BOOLEAN :
         LET r == ShapeReduce(dims, shapes[self], axis, keepdims, NoneV)
         IN /\ Len(r.dims) <= MaxHeap
            /\ dims' = r.dims
            /\ shapes' = IF IsErr(r.obj) THEN shapes ELSE Append(shapes, r.obj)
            /\ last' = [op |-> "reduce", self |-> self, axis |-> axis,
                        keepdims |-> keepdims,
                        res |-> IF IsErr(r.obj) THEN r.obj
                                ELSE SRefV(Len(shapes) + 1)]
    /\ UNCHANGED <<writes, kernels, oinf>>

\* self == a, a a ShapeObject or a tuple
EqShape ==
    /\ last = Idle
    /\ \E self \in ShapeIds, a \in ShapeIds :
         last' = [op |-> "shape==", self |-> self, a |-> a,
                  res |-> BoolV(ShapeEq(dims, shapes[self], shapes[a]))]
    /\ UNCHANGED <<dims, shapes, writes, kernels, oinf>>

\* self == a, a a tuple
EqTuple ==
    /\ last = Idle
    /\ \E self \in ShapeIds, a \in Tuples :
         last' = [op |-> "shape==tuple", self |-> self, a |-> a,
                  res |-> BoolV(ShapeEq(dims, shapes[self], a))]
    /\ UNCHANGED <<dims, shapes, writes, kernels, oinf>>

NextShape ==
    \/ NewShape
    \/ GetItem
    \/ SetItem
    \/ Reduce
    \/ EqShape
    \/ EqTuple
    \/ Discard

\* The shapes: ShapeObject over DimensionObject.
SpecShape == Init /\ [][NextShape]_vars

(* -------------------------- claims on shapes --------------------------- *)

\* C5: two shapes are equal with == exactly when both are the unknown
\* shape, or both are known, have the same rank and each pair of
\* corresponding dimensions is equal with ==.
C5_ShapeEquality ==
    last.op = "shape=="
    => LET x == shapes[last.self].shape
           y == shapes[last.a].shape
       IN last.res =
            BoolV(\/ IsNone(x) /\ IsNone(y)
                  \/ /\ IsList(x)
                     /\ IsList(y)
                     /\ Len(x.list) = Len(y.list)
                     /\ \A j \in 1..Len(x.list) :
                          PyEq(dims, x.list[j], y.list[j]))

\* C5 witness: two different known shapes of rank 2 were found equal.
C5_Witness ==
    /\ last.op = "shape=="
    /\ last.self # last.a
    /\ IsList(shapes[last.self].shape)
    /\ IsList(shapes[last.a].shape)
    /\ Len(shapes[last.self].shape.list) = 2
    /\ last.res = BoolV(TRUE)

\* C7: reading a known shape of rank r at an index i >= r returns 1,
\* reading it at 0 <= i < r returns the element stored at i, and the read
\* changes no shape and no dimension.
C7_GetItem ==
    [][(last'.op = "getitem" /\ IsList(shapes[last'.self].shape))
         => LET l == shapes[last'.self].shape.list
                i == last'.index
            IN /\ shapes' = shapes
               /\ dims' = dims
               /\ i >= Len(l) => last'.res = IntV(1)
               /\ (0 <= i /\ i < Len(l)) => last'.res = l[i + 1]]_vars

\* C7 witness: a known shape of rank 1 or more was read beyond its rank.
C7_Witness ==
    /\ last.op = "getitem"
    /\ IsList(shapes[last.self].shape)
    /\ Len(shapes[last.self].shape.list) >= 1
    /\ last.index >= Len(shapes[last.self].shape.list)

\* C8: writing v at an index i >= r of a known shape of rank r makes it a
\* shape of rank i + 1 whose elements 0..r-1 are the former ones, whose
\* elements r..i-1 are new known dimensions 1 and whose element i is v;
\* writing into the unknown shape leaves it unknown.
C8_SetItem ==
    [][last'.op = "setitem"
         => LET old == shapes[last'.self]
                new == shapes'[last'.self]
                i == last'.index
            IN /\ \A d \in DOMAIN dims : dims'[d] = dims[d]
               /\ IsNone(old.shape) => (shapes' = shapes /\ dims' = dims)
               /\ (IsList(old.shape) /\ i >= Len(old.shape.list))
                    => LET r == Len(old.shape.list)
                           nl == new.shape.list
                       IN /\ Len(nl) = i + 1
                          /\ \A j \in 1..r : nl[j] = old.shape.list[j]
                          /\ \A j \in (r + 1)..i :
                               /\ IsRef(nl[j])
                               /\ nl[j].ref \notin DOMAIN dims
                               /\ dims'[nl[j].ref] = IntV(1)
                          /\ nl[i + 1] = last'.value]_vars

\* C8 witness: an int was written at index 1 or 2 of the shape of rank 0,
\* so that every DimensionObject alive was made by the padding.
C8_Witness ==
    /\ last.op = "setitem"
    /\ last.index >= 1
    /\ IsInt(last.value)
    /\ Len(shapes) = 1
    /\ IsList(shapes[1].shape)
    /\ Len(shapes[1].shape.list) = last.index + 1
    /\ Len(dims) = last.index + 1

\* The element e of a new shape is a DimensionObject holding the element
\* old of the shape it was made from.
Holds(h, e, old) == IsRef(e) /\ h[e.ref] = old

C28_ElementsAreDimensions ==
    \A k \in ShapeIds :
        IsList(shapes[k].shape)
        => \A j \in 1..Len(shapes[k].shape.list) :
             IsRef(shapes[k].shape.list[j])

(* --------------------- further operations on shapes -------------------- *)

\* ShapeObject.append(dim): the heap and the object after the call.
ShapeAppend(h, self, dim) ==
    IF IsNone(self.shape) THEN [dims |-> h, obj |-> self]
    ELSE IF IsRef(dim)
    THEN [dims |-> h,
          obj |-> [self EXCEPT !.shape = ListV(Append(self.shape.list, dim))]]
    ELSE [dims |-> Append(h, DimInit(h, dim)),
          obj |-> [self EXCEPT !.shape =
                     ListV(Append(self.shape.list, RefV(Len(h) + 1)))]]

\* ShapeObject.drop_axis(axis), axis an int: the object after the call and
\* the value returned (or the exception).
ShapeDropAxis(self, axis) ==
    IF IsNone(self.shape) THEN [obj |-> self, res |-> NoneV]
    ELSE LET k == PyIdx(Len(self.shape.list), axis)
         IN IF k < 0 THEN [obj |-> self, res |-> ErrV("IndexError")]
            ELSE [obj |-> [self EXCEPT !.shape =
                             ListV(RemoveAt(self.shape.list, k + 1))],
                  res |-> NoneV]

\* ShapeObject.__iter__: the dimensions of a known shape, nothing for the
\* unknown shape.
ShapeIter(self) == IF IsNone(self.shape) THEN <<>> ELSE self.shape.list

\* ShapeObject.evaluate(**kw): the heap after the call and the new object
\* (or the exception an element that is no DimensionObject raises).
ShapeEvaluate(h, self, kw) ==
    LET it == ShapeIter(self)
    IN IF \E j \in 1..Len(it) : ~IsRef(it[j])
       THEN [dims |-> h, obj |-> ErrV("AttributeError")]
       ELSE ShapeInit(h,
                      ListV([j \in 1..Len(it) |-> Evaluate(h, it[j].ref, kw)]),
                      self.dtype, FALSE, StrV(Fmt(self.name) \o "-EV"))

\* Python's l > r on two elements of dimension lists.  DimensionObject
\* defines __gt__ only: it reads r._dim, which a raw value has not; a raw
\* left operand does not know DimensionObject, which has no __lt__ to
\* fall back on.
PyGt(h, l, r) ==
    IF IsRef(l)
    THEN IF IsRef(r) \/ IsNone(r) THEN DimGt(h, l.ref, r)
         ELSE ErrV("AttributeError")
    ELSE IF IsInt(l) /\ IsInt(r) THEN BoolV(l.i > r.i)
    ELSE ErrV("TypeError")

\* Python's l < r: DimensionObject has no __lt__, so r.__gt__(l) answers.
PyLt(h, l, r) ==
    IF IsRef(r)
    THEN IF IsRef(l) \/ IsNone(l) THEN DimGt(h, r.ref, l)
         ELSE ErrV("AttributeError")
    ELSE IF IsInt(l) /\ IsInt(r) THEN BoolV(l.i < r.i)
    ELSE ErrV("TypeError")

RECURSIVE ZipGt(_, _, _)
\* for d1, d2 in zip(x, y): if d1 > d2: return True; if d1 < d2: return
\* False / return False
ZipGt(h, x, y) ==
    IF x = <<>> \/ y = <<>> THEN BoolV(FALSE)
    ELSE LET gt == PyGt(h, Head(x), Head(y))
         IN IF IsErr(gt) THEN gt
            ELSE IF gt.b THEN BoolV(TRUE)
            ELSE LET lt == PyLt(h, Head(x), Head(y))
                 IN IF IsErr(lt) THEN lt
                    ELSE IF lt.b THEN BoolV(FALSE)
                    ELSE ZipGt(h, Tail(x), Tail(y))

\* ShapeGt without the comparison of the two lengths.
ShapeGtNoLen(h, self, a) ==
    LET conv == ShapeInit(h, a, self.dtype, FALSE, NoneV)
        h1 == IF IsList(a) THEN conv.dims ELSE h
        b == IF IsList(a) THEN conv.obj ELSE a
    IN IF IsNone(self.shape) /\ IsNone(b.shape) THEN BoolV(FALSE)
       ELSE IF IsNone(self.shape) THEN BoolV(TRUE)
       ELSE IF IsNone(b.shape) THEN BoolV(FALSE)
       ELSE ZipGt(h1, self.shape.list, b.shape.list)

\* ShapeObject.__gt__(self, a), a a ShapeObject or a tuple.
ShapeGt(h, self, a) ==
    LET conv == ShapeInit(h, a, self.dtype, FALSE, NoneV)
        h1 == IF IsList(a) THEN conv.dims ELSE h
        b == IF IsList(a) THEN conv.obj ELSE a
    IN IF IsNone(self.shape) /\ IsNone(b.shape) THEN BoolV(FALSE)
       ELSE IF IsNone(self.shape) THEN BoolV(TRUE)
       ELSE IF IsNone(b.shape) THEN BoolV(FALSE)
       ELSE IF ShapeLen(self) > ShapeLen(b) THEN BoolV(TRUE)
       ELSE IF ShapeLen(self) < ShapeLen(b) THEN BoolV(FALSE)
       ELSE ZipGt(h1, self.shape.list, b.shape.list)

\* What a caller passes to append: an int, a name, None or a DimensionObject.
AppendArgs == {IntV(MaxInt), StrV("a"), NoneV} \cup {RefV(d) : d \in DimIds}

\* self.copy()
Copy ==
    /\ last = Idle
    /\ Len(shapes) < MaxShapes
    /\ \E self \in ShapeIds :
         LET r == ShapeCopy(dims, shapes[self], NoneV, NoneV)
         IN /\ Len(r.dims) <= MaxHeap
            /\ dims' = r.dims
            /\ shapes' = Append(shapes, r.obj)
            /\ last' = [op |-> "copy", self |-> self,
                        res |-> SRefV(Len(shapes) + 1)]
    /\ UNCHANGED <<writes, kernels, oinf>>

\* self.append(dim)
AppendDim ==
    /\ last = Idle
    /\ writes < MaxWrites
    /\ writes' = writes + 1
    /\ \E self \in ShapeIds, dim \in AppendArgs :
         LET r == ShapeAppend(dims, shapes[self], dim)
         IN /\ Len(r.dims) <= MaxHeap
            /\ dims' = r.dims
            /\ shapes' = [shapes EXCEPT ![self] = r.obj]
            /\ last' = [op |-> "append", self |-> self, dim |-> dim,
                        res |-> NoneV]
    /\ UNCHANGED <<kernels, oinf>>

\* self.drop_axis(axis)
DropAxis ==
    /\ last = Idle
    /\ writes < MaxWrites
    /\ writes' = writes + 1
    /\ \E self \in ShapeIds, axis \in Indices :
         LET r == ShapeDropAxis(shapes[self], axis)
         IN /\ shapes' = [shapes EXCEPT ![self] = r.obj]
            /\ last' = [op |-> "drop_axis", self |-> self, axis |-> axis,
                        res |-> r.res]
    /\ UNCHANGED <<dims, kernels, oinf>>

\* self.evaluate(**kw)
EvaluateShape ==
    /\ last = Idle
    /\ Len(shapes) < MaxShapes
    /\ \E self \in ShapeIds, kw \in Bindings :
         LET r == ShapeEvaluate(dims, shapes[self], kw)
         IN /\ Len(r.dims) <= MaxHeap
            /\ dims' = r.dims
            /\ shapes' = IF IsErr(r.obj) THEN shapes ELSE Append(shapes, r.obj)
            /\ last' = [op |-> "shape.evaluate", self |-> self, kw |-> kw,
                        res |-> IF IsErr(r.obj) THEN r.obj
                                ELSE SRefV(Len(shapes) + 1)]
    /\ UNCHANGED <<writes, kernels, oinf>>

\* self > a, a a ShapeObject
GtShape ==
    /\ last = Idle
    /\ \E self \in ShapeIds, a \in ShapeIds :
         last' = [op |-> "shape>", self |-> self, a |-> a,
                  res |-> ShapeGt(dims, shapes[self], shapes[a])]
    /\ UNCHANGED <<dims, shapes, writes, kernels, oinf>>

\* self > a, a a tuple
GtTuple ==
    /\ last = Idle
    /\ \E self \in ShapeIds, a \in Tuples :
         last' = [op |-> "shape>tuple", self |-> self, a |-> a,
                  res |-> ShapeGt(dims, shapes[self], a)]
    /\ UNCHANGED <<dims, shapes, writes, kernels, oinf>>

NextShapeOps ==
    \/ NewShape
    \/ Copy
    \/ SetItem
    \/ AppendDim
    \/ DropAxis
    \/ EvaluateShape
    \/ GtShape
    \/ GtTuple
    \/ Discard

\* The shapes: copies, changes in place, evaluation and ordering.
SpecShapeOps == Init /\ [][NextShapeOps]_vars

(* ---------------------- claims on further operations ------------------ *)

\* The shape c was made by copy() from the shape s and neither was changed
\* since: same dtype, and each element of c is a DimensionObject holding
\* the element of s at the same position.
IsCopy(h, c, s) ==
    /\ c.dtype = s.dtype
    /\ \/ IsNone(c.shape) /\ IsNone(s.shape)
       \/ /\ IsList(c.shape)
          /\ IsList(s.shape)
          /\ Len(c.shape.list) = Len(s.shape.list)
          /\ \A j \in 1..Len(c.shape.list) :
               Holds(h, c.shape.list[j], s.shape.list[j])

\* C27: for every shape s, unknown or known with integer, symbolic and
\* unknown dimensions, s.copy() == s is True, the copy has the rank and the
\* dtype of s, and a later setitem, append or drop_axis on the copy changes
\* neither s nor any DimensionObject that existed before.
C27_CopyIsEqualAndIndependent ==
    [][/\ last'.op = "copy"
          => LET c == shapes'[last'.res.sref]
                 s0 == shapes'[last'.self]
             IN /\ ShapeEq(dims', c, s0)
                /\ ShapeLen(c) = ShapeLen(s0)
                /\ c.dtype = s0.dtype
                /\ IsNone(c.shape) <=> IsNone(s0.shape)
                /\ shapes[last'.self] = s0
       /\ last'.op \in {"setitem", "append", "drop_axis"}
          => \A k \in ShapeIds \ {last'.self} :
               IsCopy(dims, shapes[last'.self], shapes[k])
               => /\ shapes'[k] = shapes[k]
                  /\ \A d \in DOMAIN dims : dims'[d] = dims[d]]_vars

\* C27 witness: a dimension was appended to the copy of a shape of rank 2
\* with an integer and an unknown dimension.
C27_Witness ==
    /\ last.op = "append"
    /\ last.self = 2
    /\ Len(shapes) = 2
    /\ IsList(shapes[1].shape)
    /\ Len(shapes[1].shape.list) = 2
    /\ IsList(shapes[2].shape)
    /\ Len(shapes[2].shape.list) = 3
    /\ \A j \in 1..2 : Holds(dims, shapes[2].shape.list[j],
                             shapes[1].shape.list[j])
    /\ IsInt(dims[shapes[1].shape.list[1].ref])
    /\ IsNone(dims[shapes[1].shape.list[2].ref])

\* C29: ShapeObject.evaluate keeps what is known about the rank: on the
\* unknown shape it returns the unknown shape, on a known shape of rank r a
\* known shape of rank r, with the same dtype, under every binding.
C29_EvaluateKeepsRank ==
    (/\ last.op = "shape.evaluate"
     /\ ~IsErr(last.res))
    => LET s0 == shapes[last.self]
           e == shapes[last.res.sref]
       IN /\ IsNone(s0.shape) <=> IsNone(e.shape)
          /\ ShapeLen(e) = ShapeLen(s0)
          /\ e.dtype = s0.dtype

\* The comparison returned True.
IsTrue(r) == IsBool(r) /\ r.b

\* C30: the ordering > of shapes is a strict order wherever it returns: when
\* a > b and b > a both return, they are not both True; a > a is False;
\* a == b implies neither a > b nor b > a; the unknown shape is greater
\* than every known shape and a shape of higher rank is greater than one of
\* lower rank.
C30_StrictOrder ==
    last.op = "shape>"
    => LET x == shapes[last.self]
           y == shapes[last.a]
           yx == ShapeGt(dims, y, x)
       IN /\ ~(IsTrue(last.res) /\ IsTrue(yx))
          /\ last.self = last.a => ~IsTrue(last.res)
          /\ ShapeEq(dims, x, y) => ~IsTrue(last.res) /\ ~IsTrue(yx)
          /\ (IsNone(x.shape) /\ IsList(y.shape)) => last.res = BoolV(TRUE)
          /\ (IsList(x.shape) /\ IsList(y.shape)
                /\ ShapeLen(x) > ShapeLen(y)) => last.res = BoolV(TRUE)

\* C30 witness: two known shapes of rank 2 with the same first dimension
\* were compared, the second dimension decided, and the reverse comparison
\* returns False.
C30_Witness ==
    /\ last.op = "shape>"
    /\ last.self # last.a
    /\ last.res = BoolV(TRUE)
    /\ ShapeLen(shapes[last.self]) = 2
    /\ ShapeLen(shapes[last.a]) = 2
    /\ PyEq(dims, shapes[last.self].shape.list[1], shapes[last.a].shape.list[1])
    /\ ShapeGt(dims, shapes[last.a], shapes[last.self]) = BoolV(FALSE)

(* ======================= operator kernels (ops_cpu) ==================== *)
(* A kernel instance is the map of its attributes: a function from the    *)
(* attribute names to Python values.  numpy arrays are lists (a matrix is  *)
(* a list of rows); float32 numbers are modelled by integers tagged as     *)
(* floats, so the arithmetic is exact.                                     *)

FloatV(n) == [f |-> n]
BytesV(t) == [by |-> t]
DictV(d) == [dict |-> d]
IsFloat(v) == "f" \in DOMAIN v
IsBytes(v) == "by" \in DOMAIN v
IsNum(v) == IsInt(v) \/ IsFloat(v)
Num(v) == IF IsInt(v) THEN v.i ELSE v.f

\* An object without attributes.
NoAttrs == [a \in {} |-> NoneV]

HasAttr(self, a) == a \in DOMAIN self

SetAttrs(self, more) ==
    [a \in DOMAIN self \cup DOMAIN more |->
        IF a \in DOMAIN more THEN more[a] ELSE self[a]]

\* OpRun.__init__(onnx_node, desc, expected_attributes): the attributes of
\* the node are copied onto the instance, and every attribute of the schema
\* the node does not give takes its declared default.
OpRunInit(self, node, expected_attributes) ==
    SetAttrs(SetAttrs(self, expected_attributes), node)

Min2(m, n) == IF m <= n THEN m ELSE n

\* {k: v for k, v in zip(keys, values)}: zip stops at the shorter list and
\* a key given twice keeps the value given last.
DictZip(keys, values) ==
    LET m == Min2(Len(keys), Len(values))
    IN [k \in {keys[i] : i \in 1..m} |->
          values[CHOOSE i \in 1..m :
                   /\ keys[i] = k
                   /\ \A j \in 1..m : keys[j] = k => j <= i]]

\* Python's == on the keys of a dict: numbers compare by value, whatever
\* their types; anything else compares with its own type only.
KeyEq(k, x) == IF IsNum(k) /\ IsNum(x) THEN Num(k) = Num(x) ELSE k = x

\* d.get(x, default)
DictGet(d, x, default) ==
    IF \E k \in DOMAIN d : KeyEq(k, x)
    THEN d[CHOOSE k \in DOMAIN d : KeyEq(k, x)]
    ELSE default

\* The first character of a text; the texts of the model have at most two.
U1(t) == IF t = "ab" THEN "a" ELSE t

\* res[i] = v on an array made by numpy.empty(n, dtype): the value is
\* converted to the dtype of the array.  numpy.empty(n, dtype=numpy.str)
\* is an array of dtype '<U1', which keeps one character of a text.
Store(dtype, v) ==
    IF dtype = StrV("str")
    THEN IF IsStr(v) THEN StrV(U1(v.s))
         ELSE IF IsBytes(v) THEN StrV(U1(v.by))
         ELSE StrV(U1(ToString(Num(v))))
    ELSE IF dtype = StrV("float32") THEN FloatV(Num(v))
    ELSE IntV(Num(v))

\* An exception with the text of its message that tells it from the others
\* of its type.
ErrMsg(type, msg) == [err |-> type, msg |-> msg]

(* ----------------------------- LabelEncoder ---------------------------- *)

\* LabelEncoder.atts
LabelEncoderAtts ==
    [default_float |-> FloatV(0), default_int64 |-> IntV(0 - 1),
     default_string |-> BytesV(""),
     keys_floats |-> ListV(<<>>), keys_int64s |-> ListV(<<>>),
     keys_strings |-> ListV(<<>>),
     values_floats |-> ListV(<<>>), values_int64s |-> ListV(<<>>),
     values_strings |-> ListV(<<>>)]

\* LabelEncoder.__init__(onnx_node, desc): the instance as the constructor
\* leaves it, and None or the exception it raises.
LabelEncoderInit(node) ==
    LET s == OpRunInit(NoAttrs, node, LabelEncoderAtts)
    IN IF Len(s.keys_floats.list) > 0
       THEN [self |-> SetAttrs(s,
                 [classes_ |-> DictV(DictZip(s.keys_floats.list,
                                             s.values_floats.list)),
                  default_ |-> s.default_float, dtype_ |-> StrV("float32")]),
             res |-> NoneV]
       ELSE IF Len(s.keys_int64s.list) > 0
       THEN [self |-> SetAttrs(s,
                 [classes_ |-> DictV(DictZip(s.keys_int64s.list,
                                             s.values_int64s.list)),
                  default_ |-> s.default_int64, dtype_ |-> StrV("int64")]),
             res |-> NoneV]
       ELSE IF Len(s.keys_strings.list) > 0
       THEN [self |-> SetAttrs(s,
                 [classes_ |-> DictV(DictZip(s.keys_strings.list,
                                             s.values_strings.list)),
                  default_ |-> s.default_string, dtype_ |-> StrV("str")]),
             res |-> NoneV]
       ELSE IF HasAttr(s, "classes_strings")
       THEN [self |-> s, res |-> ErrMsg("RuntimeError", "version 1")]
       ELSE [self |-> s, res |-> ErrMsg("RuntimeError", "No encoding")]

\* A slip of LabelEncoder._run: a key that is missed is added to the table.
LabelEncoderRunCaching(self, x) ==
    LET res == [i \in 1..Len(x.list) |->
                  Store(self.dtype_,
                        DictGet(self.classes_.dict, x.list[i], self.default_))]
        d == self.classes_.dict
    IN [self |-> [self EXCEPT !.classes_ =
                    DictV([k \in DOMAIN d \cup {x.list[i] : i \in 1..Len(x.list)}
                             |-> DictGet(d, k, self.default_)])],
        x |-> x, res |-> ListV(<<ListV(res)>>)]

\* LabelEncoder._run(x), x a one-dimensional array: the instance and the
\* input after the call, and the 1-tuple returned.
LabelEncoderRun(self, x) ==
    LET res == [i \in 1..Len(x.list) |->
                  Store(self.dtype_,
                        DictGet(self.classes_.dict, x.list[i], self.default_))]
    IN [self |-> self, x |-> x, res |-> ListV(<<ListV(res)>>)]

(* ---------------------------- LinearRegressor -------------------------- *)

\* LinearRegressor.atts
LinearRegressorAtts ==
    [coefficients |-> NoneV, intercepts |-> NoneV, targets |-> IntV(1),
     post_transform |-> BytesV("NONE")]

\* LinearRegressor.__init__(onnx_node, desc): coefficients becomes
\* coefficients.reshape(targets, n).T, a matrix of n rows and targets columns.
LinearRegressorInit(node) ==
    LET s == OpRunInit(NoAttrs, node, LinearRegressorAtts)
    IN IF ~IsList(s.coefficients)
       THEN [self |-> s, res |-> ErrV("TypeError")]
       ELSE LET c == s.coefficients.list
                T == s.targets.i
                n == Len(c) \div T
            IN IF T * n # Len(c)
               THEN [self |-> s, res |-> ErrV("ValueError")]
               ELSE [self |-> [s EXCEPT !.coefficients =
                                 ListV([i \in 1..n |->
                                   ListV([j \in 1..T |-> c[(j - 1) * n + i]])])],
                     res |-> NoneV]

RECURSIVE SumTo(_, _)
\* f[1] + ... + f[k]
SumTo(f, k) == IF k = 0 THEN 0 ELSE SumTo(f, k - 1) + f[k]

IsMatrix(x) == x.list # <<>> /\ IsList(x.list[1])

\* numpy.dot(r, M) for a row r and a matrix M of Len(r) rows and T columns
DotRow(r, M, T) ==
    ListV([j \in 1..T |->
             FloatV(SumTo([i \in 1..Len(r) |-> Num(r[i]) * Num(M[i].list[j])],
                          Len(r)))])

\* numpy.dot(x, M), x a row or a matrix: ValueError when the shapes are not
\* aligned.
Dot(x, M, T) ==
    IF IsMatrix(x)
    THEN IF \A k \in 1..Len(x.list) : Len(x.list[k].list) = Len(M)
         THEN ListV([k \in 1..Len(x.list) |-> DotRow(x.list[k].list, M, T)])
         ELSE ErrV("ValueError")
    ELSE IF Len(x.list) = Len(M) THEN DotRow(x.list, M, T)
    ELSE ErrV("ValueError")

\* row += b for a row of T numbers, b of length T or 1 (broadcast)
AddRow(row, b) ==
    ListV([j \in 1..Len(row) |->
             FloatV(Num(row[j]) + Num(b[IF Len(b) = 1 THEN 1 ELSE j]))])

\* score += b: ValueError when b cannot be broadcast to the shape of score.
IAdd(score, b, T) ==
    IF Len(b) # T /\ Len(b) # 1 THEN ErrV("ValueError")
    ELSE IF IsMatrix(score)
    THEN ListV([k \in 1..Len(score.list) |-> AddRow(score.list[k].list, b)])
    ELSE AddRow(score.list, b)

\* A slip of LinearRegressor._run: the intercepts are not added.
LinearRegressorRunNoIntercept(self, x) ==
    LET score == Dot(x, self.coefficients.list, self.targets.i)
    IN [self |-> self, x |-> x,
        res |-> IF IsErr(score) THEN score
                ELSE IF self.post_transform # BytesV("NONE")
                THEN ErrV("NotImplementedError")
                ELSE ListV(<<score>>)]

\* A slip of LinearRegressor._run: any post_transform is taken for NONE.
LinearRegressorRunAnyTransform(self, x) ==
    LET score == Dot(x, self.coefficients.list, self.targets.i)
        total == IF IsErr(score) \/ IsNone(self.intercepts) THEN score
                 ELSE IAdd(score, self.intercepts.list, self.targets.i)
    IN [self |-> self, x |-> x,
        res |-> IF IsErr(total) THEN total ELSE ListV(<<total>>)]

\* LinearRegressor._run(x): the instance and the input after the call, and
\* the 1-tuple returned or the exception raised.
LinearRegressorRun(self, x) ==
    LET score == Dot(x, self.coefficients.list, self.targets.i)
        total == IF IsErr(score) \/ IsNone(self.intercepts) THEN score
                 ELSE IAdd(score, self.intercepts.list, self.targets.i)
    IN [self |-> self, x |-> x,
        res |-> IF IsErr(total) THEN total
                ELSE IF self.post_transform # BytesV("NONE")
                THEN ErrV("NotImplementedError")
                ELSE ListV(<<total>>)]

(* -------------------------------- ZipMap ------------------------------- *)

\* ZipMap.atts
ZipMapAtts ==
    [classlabels_int64s |-> ListV(<<>>), classlabels_strings |-> ListV(<<>>)]

\* self._zipmap = lambda x: {k: v for k, v in zip(self.<labels>, x)}: the
\* function is kept as the name of the attribute it reads.
Lambda(labels) == [a \in {"_zipmap"} |-> StrV(labels)]

\* A slip of ZipMap.__init__: desc is looked at after the attributes are set.
ZipMapInitLateCheck(node, desc) ==
    LET s == OpRunInit(NoAttrs, node, ZipMapAtts)
    IN IF IsNone(desc)
       THEN [self |-> s, res |-> ErrV("ValueError")]
       ELSE IF HasAttr(s, "classlabels_int64s")
       THEN [self |-> SetAttrs(s, Lambda("classlabels_int64s")), res |-> NoneV]
       ELSE IF HasAttr(s, "classlabels_strings")
       THEN [self |-> SetAttrs(s, Lambda("classlabels_strings")), res |-> NoneV]
       ELSE [self |-> s, res |-> ErrV("RuntimeError")]

\* ZipMap.__init__(onnx_node, desc)
ZipMapInit(node, desc) ==
    IF IsNone(desc)
    THEN [self |-> NoAttrs, res |-> ErrV("ValueError")]
    ELSE LET s == OpRunInit(NoAttrs, node, ZipMapAtts)
         IN IF HasAttr(s, "classlabels_int64s")
            THEN [self |-> SetAttrs(s, Lambda("classlabels_int64s")),
                  res |-> NoneV]
            ELSE IF HasAttr(s, "classlabels_strings")
            THEN [self |-> SetAttrs(s, Lambda("classlabels_strings")),
                  res |-> NoneV]
            ELSE [self |-> s, res |-> ErrV("RuntimeError")]

\* ZipMap._run(x), x a matrix: one dictionary per row
ZipMapRun(self, x) ==
    [self |-> self, x |-> x,
     res |-> ListV(<<ListV([k \in 1..Len(x.list) |->
                 DictV(DictZip(self[self["_zipmap"].s].list,
                               x.list[k].list))])>>)]

(* --------------------------- inputs of kernels ------------------------- *)

Restrict(f, S) == [a \in S |-> f[a]]

\* The attributes a LabelEncoder node may carry; a node carries any subset
\* of one of these maps.  classes_strings is the attribute of version 1.
LabelEncoderGiven ==
    {[default_float |-> FloatV(9), default_int64 |-> IntV(9),
      default_string |-> StrV("z"),
      keys_floats |-> ListV(<<FloatV(1), FloatV(2)>>),
      keys_int64s |-> ListV(<<IntV(1), IntV(2)>>),
      keys_strings |-> ListV(<<StrV("a"), StrV("b")>>),
      values_floats |-> ListV(<<FloatV(5), FloatV(6)>>),
      values_int64s |-> ListV(<<IntV(5), IntV(6)>>),
      values_strings |-> ListV(<<StrV("a"), vb>>),
      classes_strings |-> ListV(<<StrV("a")>>)] : vb \in {StrV("b"), StrV("ab")}}

LabelEncoderNodes ==
    {Restrict(g, S) : g \in LabelEncoderGiven,
                      S \in SUBSET {"default_float", "default_int64",
                                    "default_string", "keys_floats",
                                    "keys_int64s", "keys_strings",
                                    "values_floats", "values_int64s",
                                    "values_strings", "classes_strings"}}

\* One-dimensional inputs of LabelEncoder._run.
LabelEncoderInputs ==
    {ListV(<<>>), ListV(<<IntV(1), IntV(3)>>), ListV(<<IntV(2)>>),
     ListV(<<FloatV(1), FloatV(3)>>), ListV(<<StrV("a"), StrV("z")>>),
     ListV(<<StrV("b")>>)}

LinearRegressorNodes ==
    {Restrict([coefficients |-> c, intercepts |-> b, targets |-> T,
               post_transform |-> pt], S) :
       c \in {ListV(<<FloatV(1), FloatV(2)>>),
              ListV(<<FloatV(1), FloatV(2), FloatV(3)>>),
              ListV(<<FloatV(1), FloatV(2), FloatV(3), FloatV(4)>>)},
       b \in {ListV(<<FloatV(1)>>), ListV(<<FloatV(1), FloatV(2)>>)},
       T \in {IntV(1), IntV(2)},
       pt \in {BytesV("NONE"), BytesV("SOFTMAX")},
       S \in SUBSET {"coefficients", "intercepts", "targets", "post_transform"}}

Rows ==
    LET V == {FloatV(0), FloatV(3), FloatV(4)}
    IN {<<a>> : a \in V} \cup {<<a, b>> : a \in V, b \in V}

\* A row, or a matrix of one row or of twice the same row.
Tensors ==
    {ListV(r) : r \in Rows} \cup {ListV(<<ListV(r)>>) : r \in Rows}
    \cup {ListV(<<ListV(r), ListV(r)>>) : r \in Rows}

Matrices == {x \in Tensors : IsMatrix(x)}

ZipMapNodes ==
    {Restrict([classlabels_int64s |-> ListV(<<IntV(0), IntV(1)>>),
               classlabels_strings |-> ListV(<<StrV("a"), StrV("b")>>)], S) :
       S \in SUBSET {"classlabels_int64s", "classlabels_strings"}}

\* The descriptor of the operator given to a constructor.
Desc == [desc |-> "OpSchema"]

KRefV(k) == [kref |-> k]

KernelIds == DOMAIN kernels

(* --------------------------- actions on kernels ------------------------ *)

\* The instance is kept when the constructor returns, with the node and the
\* descriptor it was made from; `first` will hold the first call of _run
\* made on it.
Created(cls, node, desc, r) ==
    IF IsErr(r.res) THEN kernels
    ELSE Append(kernels, [cls |-> cls, node |-> node, desc |-> desc,
                          self |-> r.self, first |-> NoneV])

Constructed(cls, node, desc, r) ==
    [op |-> cls, node |-> node, desc |-> desc, self |-> r.self,
     res |-> IF IsErr(r.res) THEN r.res ELSE KRefV(Len(kernels) + 1)]

\* LabelEncoder(onnx_node, desc=desc)
NewLabelEncoder ==
    /\ last = Idle
    /\ Len(kernels) < MaxKernels
    /\ \E node \in LabelEncoderNodes :
         LET r == LabelEncoderInit(node)
         IN /\ kernels' = Created("LabelEncoder", node, Desc, r)
            /\ last' = Constructed("LabelEncoder", node, Desc, r)
    /\ UNCHANGED <<dims, shapes, writes, oinf>>

\* LinearRegressor(onnx_node, desc=desc)
NewLinearRegressor ==
    /\ last = Idle
    /\ Len(kernels) < MaxKernels
    /\ \E node \in LinearRegressorNodes :
         LET r == LinearRegressorInit(node)
         IN /\ kernels' = Created("LinearRegressor", node, Desc, r)
            /\ last' = Constructed("LinearRegressor", node, Desc, r)
    /\ UNCHANGED <<dims, shapes, writes, oinf>>

\* ZipMap(onnx_node, desc=desc)
NewZipMap ==
    /\ last = Idle
    /\ Len(kernels) < MaxKernels
    /\ \E node \in ZipMapNodes, desc \in {NoneV, Desc} :
         LET r == ZipMapInit(node, desc)
         IN /\ kernels' = Created("ZipMap", node, desc, r)
            /\ last' = Constructed("ZipMap", node, desc, r)
    /\ UNCHANGED <<dims, shapes, writes, oinf>>

\* The heap after kernels[k]._run(x) returned r.
Ran(k, x, r) ==
    [kernels EXCEPT ![k].self = r.self,
                    ![k].first = IF IsNone(@) THEN [x |-> x, res |-> r.res]
                                 ELSE @]

\* The call kernels[k]._run(x): the attributes of the instance before it,
\* the input before and after it, and what it returned.
Returned(k, x, r) ==
    [op |-> "_run", cls |-> kernels[k].cls, self |-> k,
     before |-> kernels[k].self, x |-> x, xafter |-> r.x, res |-> r.res]

\* kernels[k]._run(x) on a LabelEncoder
RunLabelEncoder ==
    /\ last = Idle
    /\ \E k \in KernelIds, x \in LabelEncoderInputs :
         /\ kernels[k].cls = "LabelEncoder"
         /\ LET r == LabelEncoderRun(kernels[k].self, x)
            IN /\ kernels' = Ran(k, x, r)
               /\ last' = Returned(k, x, r)
    /\ UNCHANGED <<dims, shapes, writes, oinf>>

\* kernels[k]._run(x) on a LinearRegressor
RunLinearRegressor ==
    /\ last = Idle
    /\ \E k \in KernelIds, x \in Tensors :
         /\ kernels[k].cls = "LinearRegressor"
         /\ LET r == LinearRegressorRun(kernels[k].self, x)
            IN /\ kernels' = Ran(k, x, r)
               /\ last' = Returned(k, x, r)
    /\ UNCHANGED <<dims, shapes, writes, oinf>>

\* kernels[k]._run(x) on a ZipMap
RunZipMap ==
    /\ last = Idle
    /\ \E k \in KernelIds, x \in Matrices :
         /\ kernels[k].cls = "ZipMap"
         /\ LET r == ZipMapRun(kernels[k].self, x)
            IN /\ kernels' = Ran(k, x, r)
               /\ last' = Returned(k, x, r)
    /\ UNCHANGED <<dims, shapes, writes, oinf>>

NextKernel ==
    \/ NewLabelEncoder
    \/ NewLinearRegressor
    \/ NewZipMap
    \/ RunLabelEncoder
    \/ RunLinearRegressor
    \/ RunZipMap
    \/ Discard

\* The kernels: construction from a node and the compute step.
SpecKernel == Init /\ [][NextKernel]_vars

(* --------------------------- claims on kernels ------------------------- *)

\* The groups of keys and of values a LabelEncoder node gives.
KeyGroups(node) ==
    {a \in {"keys_floats", "keys_int64s", "keys_strings"} : a \in DOMAIN node}

ValueGroups(node) ==
    {a \in {"values_floats", "values_int64s", "values_strings"} :
       a \in DOMAIN node}

\* The default that goes with a group of values.
DefaultOf(values) ==
    IF values = "values_floats" THEN "default_float"
    ELSE IF values = "values_int64s" THEN "default_int64"
    ELSE "default_string"

\* What a lookup configured with keys, values and default answers for x.
Lookup(keys, values, default, x) ==
    [i \in 1..Len(x) |->
       IF \E j \in 1..Len(keys) : KeyEq(keys[j], x[i])
       THEN values[CHOOSE j \in 1..Len(keys) : KeyEq(keys[j], x[i])]
       ELSE default]

\* C11: A LabelEncoder kernel configured with keys [1,2] mapped to values
\* ['a','b'] and default 'z' returns ['a','z'] for input [1,3]; in general
\* output element i is the value paired with input element i when that
\* element is one of the keys, and the configured default otherwise, and the
\* output has as many elements as the input.
C11_LookupDefaultOnMiss ==
    (last.op = "_run" /\ last.cls = "LabelEncoder") =>
        LET node == kernels[last.self].node
        IN \A ka \in KeyGroups(node), va \in ValueGroups(node) :
             (/\ KeyGroups(node) = {ka}
              /\ ValueGroups(node) = {va}
              /\ DefaultOf(va) \in DOMAIN node) =>
                 last.res = ListV(<<ListV(Lookup(node[ka].list, node[va].list,
                                                 node[DefaultOf(va)],
                                                 last.x.list))>>)

\* C12: A LinearRegressor kernel with T targets, a flat coefficient array c
\* of length T*n and intercepts b of length T returns, for an input row x of
\* length n, the scores score[j] = sum over i of x[i]*c[j*n+i] + b[j] (indices
\* from 0); coefficients [1,2], intercept [1], one target and input [3,4]
\* give 12.
C12_LinearScore ==
    (last.op = "_run" /\ last.cls = "LinearRegressor") =>
        LET self == kernels[last.self].self
            node == kernels[last.self].node
            c == node.coefficients.list
            T == self.targets.i
            n == Len(c) \div T
            x == last.x.list
        IN (/\ "intercepts" \in DOMAIN node
            /\ Len(node.intercepts.list) = T
            /\ self.post_transform = BytesV("NONE")
            /\ ~IsMatrix(last.x)
            /\ Len(x) = n) =>
               last.res = ListV(<<ListV([j \in 1..T |->
                   FloatV(SumTo([i \in 1..n |->
                                   Num(x[i]) * Num(c[(j - 1) * n + i])], n)
                          + Num(node.intercepts.list[j]))])>>)

\* The example of C12 has run: 3*1 + 4*2 + 1 = 12.
C12_Witness ==
    /\ last.op = "_run"
    /\ last.cls = "LinearRegressor"
    /\ kernels[last.self].node =
         [coefficients |-> ListV(<<FloatV(1), FloatV(2)>>),
          intercepts |-> ListV(<<FloatV(1)>>)]
    /\ last.x = ListV(<<FloatV(3), FloatV(4)>>)
    /\ last.res = ListV(<<ListV(<<FloatV(12)>>)>>)

\* The input x has the shape numpy.dot and += accept for the kernel self.
Aligned(self, x) ==
    /\ IF IsMatrix(x)
       THEN \A k \in 1..Len(x.list) :
              Len(x.list[k].list) = Len(self.coefficients.list)
       ELSE Len(x.list) = Len(self.coefficients.list)
    /\ \/ IsNone(self.intercepts)
       \/ Len(self.intercepts.list) \in {1, self.targets.i}

C14_ZipMapNeedsDesc ==
    /\ (last.op = "ZipMap" /\ IsNone(last.desc)) =>
          /\ last.res = ErrV("ValueError")
          /\ last.self = NoAttrs
    /\ \A k \in KernelIds : ~IsNone(kernels[k].desc)

\* ZipMap was constructed with desc None from a node that gives class labels.
C14_Witness ==
    /\ last.op = "ZipMap"
    /\ IsNone(last.desc)
    /\ "classlabels_strings" \in DOMAIN last.node

\* C15: Constructing a LabelEncoder kernel when none of the key groups is
\* non-empty raises an error, and no kernel instance with an empty lookup
\* table is ever produced.
C15_NoEmptyLookupTable ==
    /\ (last.op = "LabelEncoder" /\ KeyGroups(last.node) = {}) =>
          IsErr(last.res)
    /\ \A k \in KernelIds :
          kernels[k].cls = "LabelEncoder" =>
              DOMAIN kernels[k].self.classes_.dict # {}

C23_StringLabelsZip ==
    (/\ last.op = "_run"
     /\ last.cls = "ZipMap"
     /\ DOMAIN kernels[last.self].node = {"classlabels_strings"}) =>
        last.res =
            ListV(<<ListV([k \in 1..Len(last.x.list) |->
                DictV(DictZip(kernels[last.self].node.classlabels_strings.list,
                              last.x.list[k].list))])>>)

(* ============================ graph executor =========================== *)
(* The executor is described by the specification only (its section 4.4):  *)
(* Loaded -> Ordered -> Bound -> Running -> Completed, or Failed.  `oinf`  *)
(* holds the graph, the execution order, the inputs given by the caller,   *)
(* the variable table (name -> buffer) with the buffers (buffer -> value), *)
(* the outputs and, after a first complete execution, what it returned.    *)
(* A tensor is modelled by one integer; a buffer is named after the        *)
(* variable it was allocated for.                                          *)

\* The kernels registered, by (operator name, domain, opset version).
Registry ==
    {<<"One", "", 1>>, <<"One", "", 2>>, <<"Inc", "", 1>>, <<"Inc", "", 2>>,
     <<"Add", "", 1>>}

\* The compute step of the registered kernels.
Compute(op_type, args) ==
    IF op_type = "One" THEN 1
    ELSE IF op_type = "Inc" THEN args[1] + 1
    ELSE args[1] + args[2]

TName(i) == "T" \o ToString(i)

\* The nodes a graph of N nodes is made of: node i writes the variable Ti
\* and reads the graph input X or any variable of the graph; One reads
\* nothing.
NodeKinds(N) ==
    LET Nm == {"X"} \cup {TName(i) : i \in 1..N}
    IN {[op_type |-> "One", domain |-> "", input |-> <<>>]}
       \cup {[op_type |-> "Inc", domain |-> "", input |-> <<a>>] : a \in Nm}
       \cup {[op_type |-> "Add", domain |-> "", input |-> <<a, b>>] :
               a \in Nm, b \in Nm}
       \cup {[op_type |-> "Frobnicate", domain |-> "custom", input |-> <<a>>] :
               a \in Nm}

\* The graph of the nodes ks, with its declared outputs, its initializers
\* and its opset version; X is its declared input.
Graph(ks, out, init, v) ==
    [node |-> [i \in DOMAIN ks |->
                 [op_type |-> ks[i].op_type, domain |-> ks[i].domain,
                  name |-> "n" \o ToString(i), input |-> ks[i].input,
                  output |-> <<TName(i)>>]],
     input |-> <<"X">>, output |-> out, initializer |-> init, opset |-> v]

\* The outputs a graph of N nodes declares: the last variable, or the first
\* and the last.
Outputs(N) == {<<TName(N)>>, <<TName(1), TName(N)>>}

\* The initializers of a graph: none, or a default for the input X.
Initializers == {[a \in {} |-> 0], [a \in {"X"} |-> 1]}

\* The inputs a caller gives: a map from names to tensors.
Feeds ==
    {[a \in {} |-> 0], [a \in {"X1"} |-> 1]}
    \cup {[a \in {"X"} |-> v] : v \in 1..2}

Range(q) == {q[i] : i \in DOMAIN q}

Min(S) == CHOOSE m \in S : \A n \in S : m <= n

Max(S) == CHOOSE m \in S : \A n \in S : n <= m

\* A slip: the error names the node instead of its operator.
UnsupportedNamesNode(node) ==
    [err |-> "UnsupportedOperatorError", op_type |-> node.name,
     domain |-> node.domain]

\* UnsupportedOperatorError for a node: it names the operator and the domain.
Unsupported(node) ==
    [err |-> "UnsupportedOperatorError", op_type |-> node.op_type,
     domain |-> node.domain]

HasKernel(g, i) ==
    <<g.node[i].op_type, g.node[i].domain, g.opset>> \in Registry

\* The nodes of g that produce the variable a.
Producers(g, a) == {i \in DOMAIN g.node : a \in Range(g.node[i].output)}

\* The nodes that can run once the nodes of `placed` have run.
Ready(g, placed) ==
    {i \in DOMAIN g.node \ Range(placed) :
       \A a \in Range(g.node[i].input) : Producers(g, a) \subseteq Range(placed)}

RECURSIVE PlaceLatest(_, _)
\* A slip of Place: among the nodes that can run, the one declared last.
PlaceLatest(g, placed) ==
    IF Len(placed) = Len(g.node) THEN ListV(placed)
    ELSE IF Ready(g, placed) = {} THEN ErrV("LoadError")
    ELSE PlaceLatest(g, Append(placed, Max(Ready(g, placed))))

RECURSIVE Place(_, _)
\* The execution order, one node at a time: among the nodes whose inputs
\* are all produced, the one declared first; LoadError when nodes are left
\* and none can run (a cycle).
Place(g, placed) ==
    IF Len(placed) = Len(g.node) THEN ListV(placed)
    ELSE IF Ready(g, placed) = {} THEN ErrV("LoadError")
    ELSE Place(g, Append(placed, Min(Ready(g, placed))))

\* A slip of MissingInputs: only the inputs some node reads are required.
MissingInputsRead(g, feeds) ==
    {a \in Range(g.input) :
       /\ a \notin DOMAIN feeds
       /\ a \notin DOMAIN g.initializer
       /\ \E i \in DOMAIN g.node : a \in Range(g.node[i].input)}

\* The declared inputs the caller does not give and no initializer names.
MissingInputs(g, feeds) ==
    {a \in Range(g.input) : a \notin DOMAIN feeds /\ a \notin DOMAIN g.initializer}

\* A slip of Reusable: the nodes that run later are not looked at.
ReusableNoLookAhead(g, sequence, pc) ==
    {a \in Range(g.node[sequence[pc]].input) :
       /\ Producers(g, a) # {}
       /\ a \notin Range(g.output)}

\* The inputs of the node at position pc whose buffer may take its output:
\* variables produced by a node, that no later node reads and that are not
\* outputs of the graph.
Reusable(g, sequence, pc) ==
    {a \in Range(g.node[sequence[pc]].input) :
       /\ Producers(g, a) # {}
       /\ a \notin Range(g.output)
       /\ \A q \in (pc + 1)..Len(sequence) :
            a \notin Range(g.node[sequence[q]].input)}

(* ------------------------- actions of the executor --------------------- *)

\* The executor over the graph g before anything is computed; prev is what
\* a first complete execution of g returned, or None.
Fresh(g, prev) ==
    [state |-> "Loaded", graph |-> g, sequence |-> NoneV, feeds |-> NoneV,
     inplace |-> FALSE, table |-> [a \in {} |-> ""], buffers |-> [a \in {} |-> 0],
     pc |-> 1, outputs |-> NoneV, inplaces |-> {}, error |-> NoneV,
     prev |-> prev]

Failed(o, error) == [o EXCEPT !.state = "Failed", !.error = error]

\* Loading a graph: every node gets its kernel from the registry; the first
\* node without one fails the load.
Load ==
    /\ oinf.state = "none"
    /\ \E N \in 1..MaxNodes :
         \E ks \in [1..N -> NodeKinds(N)], out \in Outputs(N),
            init \in Initializers, v \in 1..2 :
           LET g == Graph(ks, out, init, v)
               miss == {i \in DOMAIN g.node : ~HasKernel(g, i)}
           IN oinf' = IF miss = {} THEN Fresh(g, NoneV)
                      ELSE Failed(Fresh(g, NoneV),
                                  Unsupported(g.node[Min(miss)]))
    /\ UNCHANGED <<dims, shapes, writes, last, kernels>>

\* Loaded -> Ordered: the execution order, or LoadError on a cycle.
ComputeOrder ==
    /\ oinf.state = "Loaded"
    /\ LET sequence == Place(oinf.graph, <<>>)
       IN oinf' = IF IsErr(sequence) THEN Failed(oinf, sequence)
                  ELSE [oinf EXCEPT !.state = "Ordered",
                                    !.sequence = sequence]
    /\ UNCHANGED <<dims, shapes, writes, last, kernels>>

\* Ordered -> Bound: a fresh variable table with the initializers and the
\* inputs of the caller; a declared input that is missing, or a name that
\* is not a declared input, is an error.  A second execution takes the
\* inputs of the first and the other setting of in-place reuse.
Bind ==
    /\ oinf.state = "Ordered"
    /\ \E feeds \in Feeds, inplace \in BOOLEAN :
         /\ ~IsNone(oinf.prev) =>
              feeds = oinf.prev.feeds /\ inplace = ~oinf.prev.inplace
         /\ LET g == oinf.graph
                o == [oinf EXCEPT !.feeds = feeds, !.inplace = inplace]
                seeded == DOMAIN feeds \cup DOMAIN g.initializer
            IN oinf' =
                 IF MissingInputs(g, feeds) # {}
                    \/ ~(DOMAIN feeds \subseteq Range(g.input))
                 THEN Failed(o, ErrV("RuntimeError"))
                 ELSE [o EXCEPT !.state = "Bound",
                                !.table = [a \in seeded |-> a],
                                !.buffers = [a \in seeded |->
                                               IF a \in DOMAIN feeds THEN feeds[a]
                                               ELSE g.initializer[a]]]
    /\ UNCHANGED <<dims, shapes, writes, last, kernels>>

\* Bound/Running: the node at position pc of the order runs.  Its output
\* goes to a new buffer, or, with in-place reuse, to the buffer of an input
\* that may be reused; the binding of that input is then dropped.
RunNode ==
    /\ oinf.state \in {"Bound", "Running"}
    /\ oinf.pc <= Len(oinf.sequence.list)
    /\ LET g == oinf.graph
           node == g.node[oinf.sequence.list[oinf.pc]]
           out == node.output[1]
           reuse == {i \in DOMAIN node.input :
                       node.input[i] \in Reusable(g, oinf.sequence.list, oinf.pc)}
       IN oinf' =
            IF ~(Range(node.input) \subseteq DOMAIN oinf.table)
            THEN Failed(oinf, ErrV("RuntimeError"))
            ELSE LET value == Compute(node.op_type,
                                      [i \in DOMAIN node.input |->
                                         oinf.buffers[oinf.table[node.input[i]]]])
                 IN IF oinf.inplace /\ reuse # {}
                    THEN LET a == node.input[Min(reuse)]
                             b == oinf.table[a]
                         IN [oinf EXCEPT
                               !.state = "Running", !.pc = @ + 1,
                               !.buffers = [@ EXCEPT ![b] = value],
                               !.table = [n \in (DOMAIN @ \ {a}) \cup {out} |->
                                            IF n = out THEN b ELSE @[n]],
                               !.inplaces = @ \cup {out}]
                    ELSE [oinf EXCEPT
                            !.state = "Running", !.pc = @ + 1,
                            !.buffers = [n \in DOMAIN @ \cup {out} |->
                                           IF n = out THEN value ELSE @[n]],
                            !.table = [n \in DOMAIN @ \cup {out} |->
                                         IF n = out THEN out ELSE @[n]]]
    /\ UNCHANGED <<dims, shapes, writes, last, kernels>>

\* Running -> Completed: the declared outputs are read from the table.
Complete ==
    /\ oinf.state \in {"Bound", "Running"}
    /\ oinf.pc > Len(oinf.sequence.list)
    /\ oinf' =
         IF ~(Range(oinf.graph.output) \subseteq DOMAIN oinf.table)
         THEN Failed(oinf, ErrV("RuntimeError"))
         ELSE [oinf EXCEPT
                 !.state = "Completed",
                 !.outputs = [a \in Range(oinf.graph.output) |->
                                oinf.buffers[oinf.table[a]]]]
    /\ UNCHANGED <<dims, shapes, writes, last, kernels>>

\* The caller executes the same graph a second time, from the loaded graph.
Rerun ==
    /\ oinf.state = "Completed"
    /\ IsNone(oinf.prev)
    /\ oinf' = Fresh(oinf.graph,
                     [sequence |-> oinf.sequence, feeds |-> oinf.feeds,
                      inplace |-> oinf.inplace, inplaces |-> oinf.inplaces,
                      outputs |-> oinf.outputs])
    /\ UNCHANGED <<dims, shapes, writes, last, kernels>>

NextGraph ==
    \/ Load
    \/ ComputeOrder
    \/ Bind
    \/ RunNode
    \/ Complete
    \/ Rerun

\* The graph executor.
SpecGraph == Init /\ [][NextGraph]_vars

(* ------------------------- claims on the executor ---------------------- *)

\* Every node of seq comes after the nodes that produce its inputs.
Topological(g, seq) ==
    /\ Len(seq) = Len(g.node)
    /\ Range(seq) = DOMAIN g.node
    /\ \A p \in DOMAIN seq :
         \A a \in Range(g.node[seq[p]].input) :
           \A i \in Producers(g, a) : \E q \in 1..(p - 1) : seq[q] = i

\* No node is placed while a node declared before it could have run.
DeclarationOrder(g, seq) ==
    \A p \in DOMAIN seq :
      \A q \in (p + 1)..Len(seq) :
        seq[q] < seq[p] =>
          \E a \in Range(g.node[seq[q]].input) :
            \E i \in Producers(g, a) : \A r \in 1..(p - 1) : seq[r] # i

Acyclic(g) ==
    \E seq \in [DOMAIN g.node -> DOMAIN g.node] : Topological(g, seq)

\* C17: For every acyclic graph, whatever the file order of its nodes, the
\* execution order places every node after the nodes that produce its
\* inputs, takes among the nodes that can run the one declared first, and is
\* the same when it is computed again for the same graph; a cyclic graph is
\* rejected with an error.
C17_ExecutionOrder ==
    oinf.state \notin {"none", "Loaded"} =>
        /\ ~IsNone(oinf.sequence) =>
              /\ Topological(oinf.graph, oinf.sequence.list)
              /\ DeclarationOrder(oinf.graph, oinf.sequence.list)
              /\ ~IsNone(oinf.prev) => oinf.sequence = oinf.prev.sequence
        /\ ~Acyclic(oinf.graph) => oinf.state = "Failed"
        /\ (Acyclic(oinf.graph) /\ \A i \in DOMAIN oinf.graph.node :
                                      HasKernel(oinf.graph, i)) =>
              ~IsNone(oinf.sequence)

\* The order of a graph whose file order is not an execution order was
\* computed a second time.
C17_Witness ==
    /\ oinf.state = "Ordered"
    /\ ~IsNone(oinf.prev)
    /\ oinf.sequence = ListV(<<2, 1, 3>>)
    /\ oinf.graph.node[3].input = <<"X">>

C19_UnsupportedOperator ==
    (/\ oinf.state # "none"
     /\ \E i \in DOMAIN oinf.graph.node : ~HasKernel(oinf.graph, i)) =>
        /\ oinf.state = "Failed"
        /\ oinf.error.err = "UnsupportedOperatorError"
        /\ \E i \in DOMAIN oinf.graph.node :
             /\ ~HasKernel(oinf.graph, i)
             /\ oinf.error.op_type = oinf.graph.node[i].op_type
             /\ oinf.error.domain = oinf.graph.node[i].domain
        /\ IsNone(oinf.outputs)

\* The load of a graph whose last node is Frobnicate of domain custom failed.
C19_Witness ==
    /\ oinf.state = "Failed"
    /\ Len(oinf.graph.node) = MaxNodes
    /\ oinf.graph.node[MaxNodes].op_type = "Frobnicate"
    /\ oinf.error = [err |-> "UnsupportedOperatorError",
                     op_type |-> "Frobnicate", domain |-> "custom"]

\* C20: Executing a graph with an input mapping that lacks a declared input
\* for which no initializer of the same name exists fails with an error and
\* returns no outputs, whatever outputs the executor was created over.
C20_MissingInput ==
    (/\ oinf.state \notin {"none", "Loaded", "Ordered"}
     /\ ~IsNone(oinf.feeds)
     /\ \E a \in Range(oinf.graph.input) :
          a \notin DOMAIN oinf.feeds /\ a \notin DOMAIN oinf.graph.initializer) =>
        /\ oinf.state = "Failed"
        /\ IsErr(oinf.error)
        /\ IsNone(oinf.outputs)

\* The graph was given columns X1 instead of its input X, and no node
\* reads X.
C20_Witness ==
    /\ oinf.state = "Failed"
    /\ oinf.feeds = [a \in {"X1"} |-> 1]
    /\ oinf.graph.initializer = [a \in {} |-> 0]
    /\ Len(oinf.graph.output) = 2
    /\ \A i \in DOMAIN oinf.graph.node : "X" \notin Range(oinf.graph.node[i].input)

(* ============================ export adapter =========================== *)
(* OnnxInferenceExport reads an executor: its graph (obj.graph), the maps  *)
(* shapes_ and inplaces_ when it has them, and the flags runtime and       *)
(* skip_run it gives to the executors it builds over sub-graphs.  The      *)
(* string to_dot returns is modelled by the list of its lines.  `oinf`     *)
(* holds the executor and `last` the call made on the adapter.             *)

RECURSIVE Join(_, _)
\* sep.join(q)
Join(sep, q) ==
    IF q = <<>> THEN ""
    ELSE IF Len(q) = 1 THEN q[1]
    ELSE q[1] \o sep \o Join(sep, Tail(q))

\* DimensionObject.to_string(use_x) of a dimension holding an int, a name
\* or None, as the dimensions of an evaluated shape do.
DimToString(d, use_x) ==
    IF IsInt(d) THEN ToString(d.i)
    ELSE IF IsStr(d) THEN d.s
    ELSE IF use_x THEN "x" ELSE "?"

\* ShapeObject.to_string(use_x=False): iterating _shape fails on the
\* unknown shape.
ShapeToString(h, self) ==
    IF IsNone(self.shape) THEN ErrV("TypeError")
    ELSE StrV("(" \o Join(", ", [j \in 1..Len(self.shape.list) |->
                                   DimToString(h[self.shape.list[j].ref],
                                               FALSE)]) \o ")")

\* shape.evaluate().to_string() for a ShapeObject sh of the map shapes_,
\* kept with the DimensionObjects it is made of.
ShapeString(sh) ==
    LET e == ShapeEvaluate(sh.dims, sh.obj, NoKw)
    IN ShapeToString(e.dims, e.obj)

\* The dictionary `shapes` of to_dot with add_rt_shapes: the string of
\* every shape of shapes_, followed by "\ninplace" when the name is a key of
\* inplaces_.
RtShapes(o) ==
    [name \in DOMAIN o.shapes_ |->
       ShapeString(o.shapes_[name]).s
         \o (IF name \in DOMAIN o.inplaces_ THEN "\\ninplace" ELSE "")]

\* sh = shapes.get(name, ''); if sh: sh = "\nshape={}".format(sh)
ShapeLabel(labels, name) ==
    IF name \in DOMAIN labels /\ labels[name] # ""
    THEN "\\nshape=" \o labels[name]
    ELSE ""

\* The line of a declared input or output; type is what _type_to_string
\* gives for the variable.
BoxLine(prefix, color, v, sh) ==
    "  " \o prefix \o v.name \o " [shape=box color=" \o color
         \o " label=\"" \o v.name \o "\\n" \o v.type \o sh
         \o "\" fontsize=10];"

\* The line of an initializer: name, dtype, shape and the text of the value,
\* cut at 30 characters when the array has 9 elements or more.
InitLine(prefix, c) ==
    LET st == IF c.size < 9 THEN c.text
              ELSE IF Len(c.text) > 30 THEN SubSeq(c.text, 1, 30) \o "..."
              ELSE c.text
    IN "  " \o prefix \o c.name \o " [shape=box label=\"" \o c.name \o "\\n"
            \o c.dtype \o "(" \o c.shape \o ")\\n" \o st \o "\" fontsize=10];"

\* The line of a variable a node writes.
VarLine(prefix, out, sh) ==
    "  " \o prefix \o out \o " [shape=box label=\"" \o out \o sh
         \o "\" fontsize=10];"

\* The attributes of a node in its label: name=value, the value cut at
\* max(30 - len(name), 10) characters.
AttLabel(att) ==
    LET sl == Max2(30 - Len(att.k), 10)
        val == IF Len(att.text) > sl THEN SubSeq(att.text, 1, sl) \o "..."
               ELSE att.text
    IN att.k \o "=" \o val

SAtts(node) ==
    IF Len(node.atts) = 0 THEN ""
    ELSE "\\n" \o Join("\\n", [j \in 1..Len(node.atts) |->
                                 AttLabel(node.atts[j])])

NodeLine(prefix, node) ==
    "  " \o prefix \o node.name
         \o " [shape=box style=\"filled,rounded\" color=orange label=\""
         \o node.op_type \o "\\n(" \o node.name \o ")" \o SAtts(node)
         \o "\" fontsize=10];"

\* "  {0}{1} -> {2}{3};"
EdgeLine(p1, a, p2, b) == "  " \o p1 \o a \o " -> " \o p2 \o b \o ";"

\* '[' in line
HasBracket(line) == \E i \in 1..Len(line) : SubSeq(line, i, i) = "["

\* The lines of the sub-graph from the first one that holds '[', each
\* moved two columns to the right.
SubgraphLines(lines) ==
    LET found == {i \in 1..Len(lines) : HasBracket(lines[i])}
        start == IF found = {} THEN 1 ELSE Min(found)
    IN [j \in 1..(Len(lines) + 1 - start) |-> "  " \o lines[start + j - 1]]

RECURSIVE Flatten(_)
\* The lists of q one after the other.
Flatten(q) == IF q = <<>> THEN <<>> ELSE Head(q) \o Flatten(Tail(q))

(* ---------------------------- executors to export ---------------------- *)

\* The default options of to_dot that are written to the graph.
Options ==
    [orientation |-> "portrait", ranksep |-> "0.25", nodesep |-> "0.05"]

\* The orders in which Python may iterate the set of the option names.
OptionOrders ==
    {<<"orientation", "nodesep", "ranksep">>,
     <<"orientation", "ranksep", "nodesep">>,
     <<"nodesep", "orientation", "ranksep">>,
     <<"nodesep", "ranksep", "orientation">>,
     <<"ranksep", "orientation", "nodesep">>,
     <<"ranksep", "nodesep", "orientation">>}

\* A declared input or output of a graph.
Var(name) == [name |-> name, type |-> "float"]

\* A node that is no control-flow node.
PlainNode(name, input, output) ==
    [op_type |-> "Inc", domain |-> "", name |-> name, input |-> <<input>>,
     output |-> <<output>>, atts |-> <<>>]

\* The sub-graphs of control-flow nodes: one input and one or two outputs,
\* each computed by a node.
Bodies ==
    {[input |-> <<Var("bx")>>,
      output |-> [j \in 1..n |-> Var(<<"by", "bz">>[j])],
      initializer |-> <<>>,
      node |-> [j \in 1..n |->
                  PlainNode("b" \o ToString(j), "bx", <<"by", "bz">>[j])]] :
       n \in 1..2}

\* A Scan node over the sub-graph body; the text is str(body), which the
\* label of the node shows cut.
ScanNode(output, body) ==
    [op_type |-> "Scan", domain |-> "", name |-> "sc", input |-> <<"X">>,
     output |-> output,
     atts |-> <<[k |-> "body", type |-> "GRAPH", value |-> body,
                 text |-> "node {\\n  input: 'bx'\\n  output: 'by'"]>>]

\* The nodes of the graphs given to the executor.
ExportNodes ==
    {PlainNode(name, "X", "Y") : name \in {"n1", ""}}
    \cup {ScanNode(output, body) :
            output \in {<<"Y">>, <<"Y", "Z">>}, body \in Bodies}

\* The initializers of the graphs: none, or one array of one element.
ExportInitializers ==
    {<<>>, <<[name |-> "C", dtype |-> "float32", shape |-> "1,", size |-> 1,
              text |-> "[1.]", value |-> <<1>>]>>}

\* The graphs given to the executor: one input, one declared output, one
\* node.
ExportGraph(node, init) ==
    [input |-> <<Var("X")>>, output |-> <<Var("Y")>>, initializer |-> init,
     node |-> <<node>>]

\* A ShapeObject with the DimensionObjects it is made of.
NewShapeOf(shape) == ShapeInit(<<>>, shape, StrV("float32"), FALSE, NoneV)

\* The maps shapes_ an executor may hold after its shape pass: for some of
\* the variables, the unknown shape or a known one.
ShapeMaps ==
    UNION {[D -> {NewShapeOf(NoneV), NewShapeOf(ListV(<<StrV("a"), IntV(2)>>))}] :
             D \in SUBSET {"X", "Y"}}

\* The maps inplaces_: for some of the variables, whether the value was
\* written in place.
InplaceMaps == UNION {[D -> BOOLEAN] : D \in SUBSET {"Y"}}

\* A control-flow node of g whose sub-graph has not as many outputs as the
\* node declares.
ScanMismatch(g) ==
    \E i \in DOMAIN g.node :
      /\ g.node[i].op_type = "Scan"
      /\ Len(g.node[i].atts[1].value.output) # Len(g.node[i].output)

\* The executor the constructor returns over the graph g.  With skip_run
\* the runtime is not built: no node is looked at and no shape is computed.
\* Otherwise the nodes are checked, and the maps shapes_ and inplaces_ are
\* those of the executor's shape pass and executions.
Executor(g, runtime, skip_run, shapes_, inplaces_) ==
    IF ~skip_run /\ ScanMismatch(g) THEN ErrV("LoadError")
    ELSE [state |-> "Built", obj |-> [graph |-> g], runtime |-> runtime,
          skip_run |-> skip_run,
          shapes_ |-> IF skip_run THEN NoneV ELSE shapes_,
          inplaces_ |-> IF skip_run THEN NoneV ELSE inplaces_,
          runs |-> 0]

\* The variables of a graph.
VarNames(g) ==
    {g.input[j].name : j \in DOMAIN g.input}
    \cup {g.output[j].name : j \in DOMAIN g.output}
    \cup UNION {Range(g.node[j].output) : j \in DOMAIN g.node}

\* self.oinf.__class__(body, runtime=self.oinf.runtime,
\* skip_run=self.oinf.skip_run): a new executor over the sub-graph, with
\* the maps an executor has before any execution when its parent has them.
SubExecutor(o, body) ==
    Executor(body, o.runtime, o.skip_run,
             IF IsNone(o.shapes_) THEN NoneV
             ELSE [name \in VarNames(body) |-> NewShapeOf(NoneV)],
             IF IsNone(o.inplaces_) THEN NoneV
             ELSE [name \in {} |-> FALSE])

(* -------------------------------- to_dot ------------------------------- *)

\* The lines of the variables a node writes that are not in inter_vars yet.
NewVarLines(prefix, node, labels, seen) ==
    Flatten([j \in DOMAIN node.output |->
               IF /\ node.output[j] \notin seen
                  /\ \A i \in 1..(j - 1) : node.output[i] # node.output[j]
               THEN <<VarLine(prefix, node.output[j],
                              ShapeLabel(labels, node.output[j]))>>
               ELSE <<>>])

\* The lines of a node drawn as a box, with its edges.
PlainBlock(prefix, node) ==
    <<NodeLine(prefix, node)>>
    \o [j \in DOMAIN node.input |->
          EdgeLine(prefix, node.input[j], prefix, node.name)]
    \o [j \in DOMAIN node.output |->
          EdgeLine(prefix, node.name, prefix, node.output[j])]

\* The lines of a Scan node drawn as a cluster around the lines of its
\* sub-graph, with the edges zip(node.input, body.input) and
\* zip(body.output, node.output); id(node) is the position of the node.
ScanBlock(prefix, node, k, body, sublines) ==
    <<"  subgraph cluster_" \o node.op_type \o ToString(k) \o " {",
      "    label=\"" \o node.op_type \o "\\n(" \o node.name \o ")"
          \o SAtts(node) \o "\";",
      "    fontsize=10;",
      "    color=black;">>
    \o SubgraphLines(sublines)
    \o [j \in 1..Min2(Len(node.input), Len(body.input)) |->
          EdgeLine(prefix, node.input[j], prefix \o "B_", body.input[j].name)]
    \o [j \in 1..Min2(Len(body.output), Len(node.output)) |->
          EdgeLine(prefix \o "B_", body.output[j].name, prefix, node.output[j])]

\* first followed by rest, or the exception the first of them raised.
Then(first, rest) ==
    IF IsErr(first) THEN first
    ELSE IF IsErr(rest) THEN rest
    ELSE ListV(first.list \o rest.list)

\* The cluster of a Scan node once the string of its sub-graph is known.
WithSub(prefix, node, k, subdot) ==
    IF IsErr(subdot) THEN subdot
    ELSE ListV(ScanBlock(prefix, node, k, node.atts[1].value, subdot.list))

RECURSIVE ToDotLines(_, _, _, _, _)
RECURSIVE NodeBlocks(_, _, _, _, _, _, _, _)

\* oinf.to_dot(recursive=recursive, prefix=subprefix,
\* add_rt_shapes=add_rt_shapes) on the executor built over the sub-graph.
SubDot(sub, recursive, subprefix, add_rt_shapes, order) ==
    IF IsErr(sub) THEN sub
    ELSE ToDotLines(sub, recursive, subprefix, add_rt_shapes, order)

\* The lines to_dot writes for one node.
NodeBlock(o, recursive, prefix, add_rt_shapes, order, labels, k, node, seen) ==
    IF node.name = "" THEN ErrV("RuntimeError")
    ELSE Then(ListV(<<"">> \o NewVarLines(prefix, node, labels, seen)),
              IF recursive /\ node.op_type = "Scan"
              THEN WithSub(prefix, node, k,
                           SubDot(SubExecutor(o, node.atts[1].value),
                                  recursive, prefix \o "B_", add_rt_shapes,
                                  order))
              ELSE ListV(PlainBlock(prefix, node)))

\* The part of to_dot for the nodes from the k-th on and the closing line;
\* seen holds the names of inter_vars.
NodeBlocks(o, recursive, prefix, add_rt_shapes, order, labels, k, seen) ==
    IF k > Len(o.obj.graph.node) THEN ListV(<<"}">>)
    ELSE Then(NodeBlock(o, recursive, prefix, add_rt_shapes, order, labels,
                        k, o.obj.graph.node[k], seen),
              NodeBlocks(o, recursive, prefix, add_rt_shapes, order, labels,
                         k + 1,
                         seen \cup Range(o.obj.graph.node[k].output)))

\* The lines before the nodes: the options, the inputs, the outputs and
\* the initializers.
HeadLines(g, prefix, labels, order) ==
    <<"digraph{">>
    \o [j \in DOMAIN order |->
          "  " \o order[j] \o "=" \o Options[order[j]] \o ";"]
    \o <<"">>
    \o [j \in DOMAIN g.input |->
          BoxLine(prefix, "red", g.input[j],
                  ShapeLabel(labels, g.input[j].name))]
    \o <<"">>
    \o [j \in DOMAIN g.output |->
          BoxLine(prefix, "green", g.output[j],
                  ShapeLabel(labels, g.output[j].name))]
    \o <<"">>
    \o [j \in DOMAIN g.initializer |-> InitLine(prefix, g.initializer[j])]

\* inter_vars before the nodes
Declared(g) ==
    {g.input[j].name : j \in DOMAIN g.input}
    \cup {g.output[j].name : j \in DOMAIN g.output}
    \cup {g.initializer[j].name : j \in DOMAIN g.initializer}

\* to_dot once the dictionary `shapes` is made.
Drawn(o, recursive, prefix, add_rt_shapes, order, labels) ==
    Then(ListV(HeadLines(o.obj.graph, prefix, labels, order)),
         NodeBlocks(o, recursive, prefix, add_rt_shapes, order, labels, 1,
                    Declared(o.obj.graph)))

\* to_dot(recursive, prefix, add_rt_shapes) on the executor o: the lines of
\* the string returned, or the exception; order is the order in which the
\* set of the option names is iterated.
ToDotLines(o, recursive, prefix, add_rt_shapes, order) ==
    IF add_rt_shapes /\ IsNone(o.shapes_) THEN ErrV("RuntimeError")
    ELSE IF add_rt_shapes /\ DOMAIN o.shapes_ # {} /\ IsNone(o.inplaces_)
    THEN ErrV("AttributeError")
    ELSE Drawn(o, recursive, prefix, add_rt_shapes, order,
               IF add_rt_shapes THEN RtShapes(o) ELSE [name \in {} |-> ""])

\* A slip of ToDot: the executor is run to get its shapes.
ToDotRunning(o, recursive, add_rt_shapes, order) ==
    [oinf |-> IF add_rt_shapes THEN [o EXCEPT !.runs = @ + 1] ELSE o,
     res |-> ToDotLines(o, recursive, "", add_rt_shapes, order)]

\* OnnxInferenceExport(o).to_dot(recursive=recursive,
\* add_rt_shapes=add_rt_shapes): the executor after the call and the value
\* returned.  to_dot assigns to local variables only.
ToDot(o, recursive, add_rt_shapes, order) ==
    [oinf |-> o, res |-> ToDotLines(o, recursive, "", add_rt_shapes, order)]

(* -------------------------------- to_json ------------------------------ *)

\* _to_json(obj) of an attribute: the text of the attribute is rewritten
\* line by line into JSON; the value of its `type` line is quoted only for
\* INT, INTS, FLOAT, FLOATS, STRING and STRINGS, any other type leaves a
\* text that is no JSON.
AttToJson(att) ==
    IF att.type \in {"INT", "INTS", "FLOAT", "FLOATS", "STRING", "STRINGS"}
    THEN [name |-> att.k, type |-> att.type, value |-> att.text]
    ELSE ErrV("RuntimeError")

\* The dictionary to_json makes of a node.
NodeToJson(node) ==
    [name |-> node.name, op_type |-> node.op_type, domain |-> node.domain,
     inputs |-> node.input, outputs |-> node.output,
     attributes |-> [a \in {node.atts[j].k : j \in DOMAIN node.atts} |->
                       LET j == CHOOSE i \in DOMAIN node.atts :
                                  /\ node.atts[i].k = a
                                  /\ \A n \in DOMAIN node.atts :
                                       node.atts[n].k = a => n <= i
                           st == AttToJson(node.atts[j])
                       IN [type |-> st.type, value |-> st.value]]]

\* to_json(): the tree that is written as JSON, or the exception.
ToJsonTree(o) ==
    LET g == o.obj.graph
    IN IF \E i \in DOMAIN g.node :
            \E j \in DOMAIN g.node[i].atts : IsErr(AttToJson(g.node[i].atts[j]))
       THEN ErrV("RuntimeError")
       ELSE [inputs |-> g.input, outputs |-> g.output,
             initializers |-> [a \in {g.initializer[j].name :
                                        j \in DOMAIN g.initializer} |->
                                 g.initializer[CHOOSE j \in DOMAIN g.initializer :
                                     g.initializer[j].name = a].value],
             nodes |-> [i \in DOMAIN g.node |-> NodeToJson(g.node[i])]]

\* OnnxInferenceExport(o).to_json(): the executor after the call and the
\* value returned.
ToJson(o) == [oinf |-> o, res |-> ToJsonTree(o)]

(* ------------------------- actions of the adapter ---------------------- *)

\* The executions of an executor that are followed.
MaxRuns == 1

\* An executor is built over a graph; shapes_ and inplaces_ are what its
\* shape pass and its executions left.
LoadExport ==
    /\ oinf.state = "none"
    /\ last = Idle
    /\ \E node \in ExportNodes, init \in ExportInitializers,
          skip_run \in BOOLEAN, shapes_ \in ShapeMaps \cup {NoneV},
          inplaces_ \in InplaceMaps \cup {NoneV} :
         /\ skip_run => IsNone(shapes_) /\ IsNone(inplaces_)
         /\ LET o == Executor(ExportGraph(node, init), "python", skip_run,
                              shapes_, inplaces_)
            IN oinf' = IF IsErr(o)
                       THEN [state |-> "Failed", error |-> o]
                       ELSE o
    /\ UNCHANGED <<dims, shapes, writes, last, kernels>>

\* The caller runs the executor.
RunExport ==
    /\ oinf.state = "Built"
    /\ ~oinf.skip_run
    /\ oinf.runs < MaxRuns
    /\ oinf' = [oinf EXCEPT !.runs = @ + 1]
    /\ last' = [op |-> "run"]
    /\ UNCHANGED <<dims, shapes, writes, kernels>>

\* OnnxInferenceExport(oinf).to_dot(recursive, add_rt_shapes); one call on the
\* adapter is followed after the construction and after each execution.
ExportToDot ==
    /\ oinf.state = "Built"
    /\ last \in {Idle, [op |-> "run"]}
    /\ \E recursive \in BOOLEAN, add_rt_shapes \in BOOLEAN,
          order \in OptionOrders :
         LET r == ToDot(oinf, recursive, add_rt_shapes, order)
         IN /\ oinf' = r.oinf
            /\ last' = [op |-> "to_dot", recursive |-> recursive,
                        add_rt_shapes |-> add_rt_shapes, before |-> oinf,
                        res |-> r.res]
    /\ UNCHANGED <<dims, shapes, writes, kernels>>

\* OnnxInferenceExport(oinf).to_json()
ExportToJson ==
    /\ oinf.state = "Built"
    /\ last \in {Idle, [op |-> "run"]}
    /\ LET r == ToJson(oinf)
       IN /\ oinf' = r.oinf
          /\ last' = [op |-> "to_json", before |-> oinf, res |-> r.res]
    /\ UNCHANGED <<dims, shapes, writes, kernels>>

NextExport ==
    \/ LoadExport
    \/ RunExport
    \/ ExportToDot
    \/ ExportToJson

\* The export adapter over an executor.
SpecExport == Init /\ [][NextExport]_vars

(* ------------------------- claims on the adapter ----------------------- *)

C22_ExportsOnlyRead ==
    last.op \in {"to_dot", "to_json"} => oinf = last.before

\* to_dot with both options has returned the drawing of a Scan node for an
\* executor that was run and holds shapes.
C22_Witness ==
    /\ last.op = "to_dot"
    /\ last.recursive
    /\ last.add_rt_shapes
    /\ ~IsErr(last.res)
    /\ oinf.runs = 1
    /\ oinf.obj.graph.node[1].op_type = "Scan"
    /\ "Y" \in DOMAIN oinf.shapes_
    /\ oinf.inplaces_ = [a \in {"Y"} |-> TRUE]

\* line.startswith(p)
StartsWith(line, p) ==
    /\ Len(line) >= Len(p)
    /\ SubSeq(line, 1, Len(p)) = p

\* "inplace" in line
HasInplace(line) ==
    \E i \in 1..(Len(line) - 6) : SubSeq(line, i, i + 6) = "inplace"

\* The was-in-place flag of the variable name is set in the executor o.
FlagSet(o, name) ==
    /\ ~IsNone(o.inplaces_)
    /\ name \in DOMAIN o.inplaces_
    /\ o.inplaces_[name]

\* C24: with add_rt_shapes, to_dot fails when the executor has no shape
\* map, and otherwise the label of a declared variable that has a shape
\* holds "inplace" exactly when the was-in-place flag of the variable is
\* set.
C24_InplaceWhenFlagSet ==
    (last.op = "to_dot" /\ last.add_rt_shapes)
    => IF IsNone(last.before.shapes_) THEN IsErr(last.res)
       ELSE ~IsErr(last.res)
            => \A name \in DOMAIN last.before.shapes_ :
                 \A i \in DOMAIN last.res.list :
                   StartsWith(last.res.list[i],
                              "  " \o name \o " [shape=box color=")
                   => (HasInplace(last.res.list[i])
                         <=> FlagSet(last.before, name))

====
